---------------------------- MODULE Spec2Model ----------------------------
(***************************************************************************)
(* A model of the adaptive trust engine of pledgeagent/backend/agent:      *)
(*   stake_adjuster.py   StakeAdjuster (per-user behavioural profile)      *)
(*   fraud_detector.py   FraudPatternMatcher (signals, score, history)     *)
(*   brain.py            PledgeAgentBrain (decision synthesis, pipeline)   *)
(*                                                                         *)
(* Numbers.  The fraud score and the decision confidence are Python floats *)
(* (IEEE-754 binary64).  They are modelled bit-exactly: a double x with    *)
(* 0 <= x < 8 that is a multiple of 2^-57 is the pair <<hi, lo>> with      *)
(* x = (hi * 2^29 + lo) * 2^-57, and FAdd/FSub round to nearest, ties to   *)
(* even, as the hardware does.  The stake is a Python float as well; it is *)
(* modelled as an exact fraction num/den, which differs from the stored    *)
(* double only by rounding in the last place: no product of the factors    *)
(* 1.2 and 0.8 starting from 10 or 500 lies within rounding distance of    *)
(* the clamps 10 and 500, so every min/max takes the same branch.          *)
(***************************************************************************)
EXTENDS Integers, Sequences, FiniteSets, TLC

VARIABLES
    profiles,   \* table user_profiles: user_id -> UserProfile row
    attempts,   \* table fraud_attempts, in insertion (id) order
    patterns,   \* table fraud_patterns, in insertion (id) order
    now,        \* the server clock (datetime.utcnow), in half hours since midnight
    ledger,     \* calls made to ContractInterface.record_verification
    audit,      \* events handed to the OpikLogger
    last,       \* outcome of the most recent call
    ncalls,     \* number of calls made so far
    arg,        \* input of the pure function under check
    res,        \* its result
    tasks       \* the coroutines started on the event loop, each with its position

vars == <<profiles, attempts, patterns, now, ledger, audit, last, ncalls, arg, res,
          tasks>>

Users == {"u1", "u2"}

(***************************************************************************)
(* Bounds of the model.                                                    *)
(***************************************************************************)
MaxStakeCalls == 6

MaxCalls == 2

MaxTicks == 1

MaxHistory == 3

MaxTasks == 3

MaxAnalyses == 2

MaxSignals == 4

(***************************************************************************)
(* IEEE-754 binary64 values in units of 2^-57, as <<hi, lo>>, lo < 2^29.   *)
(***************************************************************************)
LimbBase == 536870912

Dbl(hi, lo) == <<hi, lo>>

\* The spacing of doubles around a value with high limb hi, in units of 2^-57.
Ulp(hi) ==
    IF hi >= 1073741824 THEN 128
    ELSE IF hi >= 536870912 THEN 64
    ELSE IF hi >= 268435456 THEN 32
    ELSE IF hi >= 134217728 THEN 16
    ELSE IF hi >= 67108864 THEN 8
    ELSE IF hi >= 33554432 THEN 4
    ELSE IF hi >= 16777216 THEN 2
    ELSE 1

\* Round the exact value <<hi, lo>> to the nearest double, ties to even.
FRound(hi, lo) ==
    LET q    == Ulp(hi)
        r    == lo % q
        base == lo - r
        up   == (2 * r > q) \/ (2 * r = q /\ (base \div q) % 2 = 1)
        lo2  == IF up THEN base + q ELSE base
    IN  <<hi + (lo2 \div LimbBase), lo2 % LimbBase>>

FAdd(a, b) ==
    LET s == a[2] + b[2]
    IN  FRound(a[1] + b[1] + (s \div LimbBase), s % LimbBase)

\* a - b for a >= b
FSub(a, b) ==
    LET borrow == IF a[2] < b[2] THEN 1 ELSE 0
    IN  FRound(a[1] - b[1] - borrow, a[2] - b[2] + borrow * LimbBase)

FLess(a, b) == a[1] < b[1] \/ (a[1] = b[1] /\ a[2] < b[2])

FLeq(a, b) == ~FLess(b, a)

FMin(a, b) == IF FLess(b, a) THEN b ELSE a

\* float literals of the source
F_0_0  == Dbl(0, 0)
F_1_0  == Dbl(268435456, 0)
F_0_7  == Dbl(187904819, 107374176)
F_0_3  == Dbl(80530636, 429496728)
F_0_5  == Dbl(134217728, 0)
F_0_85 == Dbl(228170137, 322122544)
F_0_6  == Dbl(161061273, 322122544)

(***************************************************************************)
(* Exact fractions for the stake.                                          *)
(***************************************************************************)
RECURSIVE Gcd(_, _)
Gcd(a, b) == IF b = 0 THEN a ELSE Gcd(b, a % b)

Rat(n, d) == LET g == Gcd(n, d) IN [num |-> n \div g, den |-> d \div g]

RatMul(r, n, d) == Rat(r.num * n, r.den * d)

RatLeq(a, b) == a.num * b.den <= b.num * a.den

RatMin(a, b) == IF RatLeq(a, b) THEN a ELSE b

RatMax(a, b) == IF RatLeq(a, b) THEN b ELSE a

(***************************************************************************)
(* stake_adjuster.py                                                       *)
(***************************************************************************)
\* a DateTime column holding NULL
NoDate == -1

\* the clock counts half hours
TicksPerHour == 2

\* the clock at the start: 04:30
StartTime == 9

\* UserProfile(user_id=u) with the column defaults
UserProfile ==
    [current_stake     |-> Rat(10, 1),
     current_streak    |-> 0,
     total_successes   |-> 0,
     total_failures    |-> 0,
     recent_failures   |-> 0,
     last_success_date |-> NoDate,
     last_failure_date |-> NoDate,
     compassion_mode   |-> FALSE]

\* The row of a user after 24 consecutive successes from a fresh profile:
\* the 22 raises from the third success on take 10 * 1.2^22 > 500 to the cap.
VeteranProfile ==
    [UserProfile EXCEPT !.current_stake = Rat(500, 1), !.current_streak = 24,
                        !.total_successes = 24, !.last_success_date = 0]

\* _get_or_create_profile: the table with u's row present
get_or_create_profile(tbl, u) ==
    IF u \in DOMAIN tbl THEN tbl ELSE tbl @@ (u :> UserProfile)

\* record_success with line 60 (total_successes += 1) left out
success_update_skips_total(p, t) ==
    LET old_stake == p.current_stake
        p1 == [p EXCEPT !.current_streak = @ + 1,
                        !.recent_failures = 0,
                        !.last_success_date = t,
                        !.compassion_mode = FALSE]
        stake_changed == p1.current_streak >= 3
    IN  [row |-> IF stake_changed
                 THEN [p1 EXCEPT !.current_stake =
                                   RatMin(RatMul(old_stake, 6, 5), Rat(500, 1))]
                 ELSE p1,
         stake_changed |-> stake_changed,
         old_stake |-> old_stake,
         reason |-> "streak_bonus"]

\* record_success with the cap of line 69 left out
success_update_uncapped(p, t) ==
    LET p1 == [p EXCEPT !.current_streak = @ + 1,
                        !.total_successes = @ + 1,
                        !.recent_failures = 0,
                        !.last_success_date = t,
                        !.compassion_mode = FALSE]
        stake_changed == p1.current_streak >= 3
    IN  [row |-> IF stake_changed
                 THEN [p1 EXCEPT !.current_stake = RatMul(p.current_stake, 6, 5)]
                 ELSE p1,
         stake_changed |-> stake_changed,
         old_stake |-> p.current_stake,
         reason |-> "streak_bonus"]

\* record_success with line 64 (compassion_mode = False) left out
success_update_keeps_compassion(p, t) ==
    LET p1 == [p EXCEPT !.current_streak = @ + 1,
                        !.total_successes = @ + 1,
                        !.recent_failures = 0,
                        !.last_success_date = t]
        stake_changed == p1.current_streak >= 3
    IN  [row |-> IF stake_changed
                 THEN [p1 EXCEPT !.current_stake =
                                   RatMin(RatMul(p.current_stake, 6, 5), Rat(500, 1))]
                 ELSE p1,
         stake_changed |-> stake_changed,
         old_stake |-> p.current_stake,
         reason |-> "streak_bonus"]

\* record_success with line 62 (recent_failures = 0) left out
success_update_keeps_recent(p, t) ==
    LET p1 == [p EXCEPT !.current_streak = @ + 1,
                        !.total_successes = @ + 1,
                        !.last_success_date = t,
                        !.compassion_mode = FALSE]
        stake_changed == p1.current_streak >= 3
    IN  [row |-> IF stake_changed
                 THEN [p1 EXCEPT !.current_stake =
                                   RatMin(RatMul(p.current_stake, 6, 5), Rat(500, 1))]
                 ELSE p1,
         stake_changed |-> stake_changed,
         old_stake |-> p.current_stake,
         reason |-> "streak_bonus"]

\* record_success raising the stake only from the fourth success of a streak
success_update_streak_over_3(p, t) ==
    LET p1 == [p EXCEPT !.current_streak = @ + 1,
                        !.total_successes = @ + 1,
                        !.recent_failures = 0,
                        !.last_success_date = t,
                        !.compassion_mode = FALSE]
        stake_changed == p1.current_streak > 3
    IN  [row |-> IF stake_changed
                 THEN [p1 EXCEPT !.current_stake =
                                   RatMin(RatMul(p.current_stake, 6, 5), Rat(500, 1))]
                 ELSE p1,
         stake_changed |-> stake_changed,
         old_stake |-> p.current_stake,
         reason |-> "streak_bonus"]

\* record_success up to session.commit(): the updated row and the audit data
success_update(p, t) ==
    LET old_stake == p.current_stake
        p1 == [p EXCEPT !.current_streak = @ + 1,
                        !.total_successes = @ + 1,
                        !.recent_failures = 0,
                        !.last_success_date = t,
                        !.compassion_mode = FALSE]
        stake_changed == p1.current_streak >= 3
    IN  [row |-> IF stake_changed
                 THEN [p1 EXCEPT !.current_stake =
                                   RatMin(RatMul(old_stake, 6, 5), Rat(500, 1))]
                 ELSE p1,
         stake_changed |-> stake_changed,
         old_stake |-> old_stake,
         reason |-> "streak_bonus"]

\* record_failure with line 95 (current_streak = 0) left out
failure_update_keeps_streak(p, t) ==
    LET p1 == [p EXCEPT !.total_failures = @ + 1,
                        !.recent_failures = @ + 1,
                        !.last_failure_date = t]
        stake_changed == p1.recent_failures >= 2
    IN  [row |-> IF stake_changed
                 THEN [p1 EXCEPT !.compassion_mode = TRUE,
                                 !.current_stake =
                                   RatMax(RatMul(p.current_stake, 4, 5), Rat(10, 1))]
                 ELSE p1,
         stake_changed |-> stake_changed,
         old_stake |-> p.current_stake,
         reason |-> "compassion_reduction"]

\* record_failure with the floor of line 103 left out
failure_update_unfloored(p, t) ==
    LET p1 == [p EXCEPT !.current_streak = 0,
                        !.total_failures = @ + 1,
                        !.recent_failures = @ + 1,
                        !.last_failure_date = t]
        stake_changed == p1.recent_failures >= 2
    IN  [row |-> IF stake_changed
                 THEN [p1 EXCEPT !.compassion_mode = TRUE,
                                 !.current_stake = RatMul(p.current_stake, 4, 5)]
                 ELSE p1,
         stake_changed |-> stake_changed,
         old_stake |-> p.current_stake,
         reason |-> "compassion_reduction"]

\* record_failure up to session.commit()
failure_update(p, t) ==
    LET old_stake == p.current_stake
        p1 == [p EXCEPT !.current_streak = 0,
                        !.total_failures = @ + 1,
                        !.recent_failures = @ + 1,
                        !.last_failure_date = t]
        stake_changed == p1.recent_failures >= 2
    IN  [row |-> IF stake_changed
                 THEN [p1 EXCEPT !.compassion_mode = TRUE,
                                 !.current_stake =
                                   RatMax(RatMul(old_stake, 4, 5), Rat(10, 1))]
                 ELSE p1,
         stake_changed |-> stake_changed,
         old_stake |-> old_stake,
         reason |-> "compassion_reduction"]

\* record_success / record_failure with the exception of a failed call
\* raised after the counters have been committed
record_outcome_raises_after_commit(tbl, u, t, success, opik, commit_ok) ==
    LET tbl1 == get_or_create_profile(tbl, u)
        upd  == IF success THEN success_update(tbl1[u], t)
                ELSE failure_update(tbl1[u], t)
    IN  [profiles |-> [tbl1 EXCEPT ![u] = upd.row],
         events   |-> <<>>,
         raised   |-> ~commit_ok]

\* record_success / record_failure as a whole: the profile table and the
\* events logged.  commit_ok = FALSE is session.commit() raising: the row keeps
\* what _get_or_create_profile committed and nothing is logged.
record_outcome(tbl, u, t, success, opik, commit_ok) ==
    LET tbl1 == get_or_create_profile(tbl, u)
        upd  == IF success THEN success_update(tbl1[u], t)
                ELSE failure_update(tbl1[u], t)
    IN  IF ~commit_ok
        THEN [profiles |-> tbl1, events |-> <<>>, raised |-> TRUE]
        ELSE [profiles |-> [tbl1 EXCEPT ![u] = upd.row],
              events   |-> IF upd.stake_changed /\ opik
                           THEN << [event |-> "stake_adjustment", user |-> u,
                                    old_stake |-> upd.old_stake,
                                    new_stake |-> upd.row.current_stake,
                                    reason |-> upd.reason] >>
                           ELSE <<>>,
              raised   |-> FALSE]

\* What a call left behind for its caller: whether it returned or raised and,
\* for process_submission, the response (verdict, fraud signals, blockchain
\* transaction), the personality chosen, and whether analyze returned; with
\* it the metadata the call was given and the commit that failed during it.
NoCall ==
    [op |-> "none", user |-> "none", goal |-> "none", outcome |-> "none",
     verdict |-> "none", analyzed |-> FALSE, signals |-> <<>>, score |-> F_0_0,
     personality |-> "none", blockchain_tx |-> FALSE,
     metadata |-> [kind |-> "none"], fault |-> "none"]

\* A direct call of StakeAdjuster.record_success(u) / record_failure(u) on an
\* adjuster built with or without an OpikLogger.
RecordSuccess(u, opik) ==
    /\ ncalls < MaxStakeCalls
    /\ \E r \in {record_outcome(profiles, u, now, TRUE, opik, TRUE)} :
           /\ profiles' = r.profiles
           /\ audit' = audit \o r.events
    /\ last' = [NoCall EXCEPT !.op = "record_success", !.user = u,
                              !.outcome = "returned"]
    /\ ncalls' = ncalls + 1
    /\ UNCHANGED <<attempts, patterns, now, ledger, arg, res, tasks>>

RecordFailure(u, opik) ==
    /\ ncalls < MaxStakeCalls
    /\ \E r \in {record_outcome(profiles, u, now, FALSE, opik, TRUE)} :
           /\ profiles' = r.profiles
           /\ audit' = audit \o r.events
    /\ last' = [NoCall EXCEPT !.op = "record_failure", !.user = u,
                              !.outcome = "returned"]
    /\ ncalls' = ncalls + 1
    /\ UNCHANGED <<attempts, patterns, now, ledger, arg, res, tasks>>

NoArg == [kind |-> "none"]

\* The empty profile table
NoProfiles == [u \in {} |-> UserProfile]

InitStake ==
    /\ profiles \in {NoProfiles, "u1" :> VeteranProfile}
    /\ attempts = <<>>
    /\ patterns = <<>>
    /\ now = StartTime
    /\ ledger = <<>>
    /\ audit = <<>>
    /\ last = NoCall
    /\ ncalls = 0
    /\ tasks = <<>>
    /\ arg = NoArg
    /\ res = NoArg

NextStake ==
    \E u \in Users, opik \in BOOLEAN :
        \/ RecordSuccess(u, opik)
        \/ RecordFailure(u, opik)

SpecStake == InitStake /\ [][NextStake]_vars

(***************************************************************************)
(* Calls of the adjuster that are in flight together.  The server runs one *)
(* asyncio event loop (api/main.py, uvicorn.run without workers), on which *)
(* every call is a coroutine; a coroutine gives way to another one only at *)
(* an await.  record_success and record_failure have no await between      *)
(* self.Session() and session.commit(): that stretch is one step.  Their    *)
(* only await, the one of opik.log_stake_adjustment, follows the commit.    *)
(***************************************************************************)
\* The row of a user after two successes in a row from a fresh profile
StreakProfile ==
    success_update(success_update(UserProfile, StartTime).row, StartTime).row

\* The profile table the concurrent calls start from
ConcProfiles == "u1" :> StreakProfile

\* A coroutine object record_success(u) / record_failure(u) just created.
\* seen is the profile table at that moment (the code reads nothing then),
\* commit_no the position of its commit among all commits (0: not yet),
\* events what it has still to hand to the OpikLogger.
AdjusterTask(op, u, seen) ==
    [op |-> op, user |-> u, pc |-> "called", seen |-> seen, commit_no |-> 0,
     events |-> <<>>]

\* the stretch up to the commit computing from the table as it stood when
\* the coroutine was created
run_to_commit_stale(tbl, task, t) ==
    LET r == record_outcome(task.seen, task.user, t,
                            task.op = "record_success", TRUE, TRUE)
    IN  [r EXCEPT !.profiles = (task.user :> r.profiles[task.user]) @@ tbl]

\* the stretch up to the commit with a query that lacks the filter on
\* user_id: .first() is the first row of the table
run_to_commit_first_row(tbl, task, t) ==
    LET target == IF DOMAIN tbl = {} THEN task.user
                  ELSE CHOOSE w \in DOMAIN tbl : TRUE
    IN  record_outcome(tbl, target, t, task.op = "record_success", TRUE, TRUE)

\* record_success / record_failure from self.Session() to session.commit()
run_to_commit(tbl, task, t) ==
    record_outcome(tbl, task.user, t, task.op = "record_success", TRUE, TRUE)

\* number of commits made so far
NCommitted == Cardinality({i \in DOMAIN tasks : tasks[i].commit_no > 0})

\* a request handler creates the coroutine
CallAdjuster(u, op) ==
    /\ Len(tasks) < MaxTasks
    /\ tasks' = Append(tasks, AdjusterTask(op, u, profiles))
    /\ UNCHANGED <<profiles, attempts, patterns, now, ledger, audit, last,
                   ncalls, arg, res>>

\* the event loop runs coroutine i up to its commit
RunToCommit(i) ==
    /\ tasks[i].pc = "called"
    /\ \E r \in {run_to_commit(profiles, tasks[i], now)} :
           /\ profiles' = r.profiles
           /\ tasks' = [tasks EXCEPT
                           ![i].pc = IF r.events = <<>> THEN "done" ELSE "logging",
                           ![i].commit_no = NCommitted + 1,
                           ![i].events = r.events]
    /\ UNCHANGED <<attempts, patterns, now, ledger, audit, last, ncalls, arg,
                   res>>

\* the event loop resumes coroutine i at await opik.log_stake_adjustment
LogStakeAdjustment(i) ==
    /\ tasks[i].pc = "logging"
    /\ audit' = audit \o tasks[i].events
    /\ tasks' = [tasks EXCEPT ![i].pc = "done", ![i].events = <<>>]
    /\ UNCHANGED <<profiles, attempts, patterns, now, ledger, last, ncalls,
                   arg, res>>

InitConc ==
    /\ profiles = ConcProfiles
    /\ attempts = <<>>
    /\ patterns = <<>>
    /\ now = StartTime
    /\ ledger = <<>>
    /\ audit = <<>>
    /\ last = NoCall
    /\ ncalls = 0
    /\ tasks = <<>>
    /\ arg = NoArg
    /\ res = NoArg

NextConc ==
    \/ \E u \in Users, op \in {"record_success", "record_failure"} :
           CallAdjuster(u, op)
    \/ \E i \in DOMAIN tasks : RunToCommit(i)
    \/ \E i \in DOMAIN tasks : LogStakeAdjustment(i)

SpecConc == InitConc /\ [][NextConc]_vars

(***************************************************************************)
(* fraud_detector.py: the score                                            *)
(***************************************************************************)
\* signal_weights without the entry of duplicate_image, which then weighs
\* the default
signal_weight_duplicate_unlisted(signal) ==
    CASE signal = "similar_image_detected" -> Dbl(80530636, 429496728)   \* 0.3
      [] signal = "old_photo"              -> Dbl(93952409, 322122544)   \* 0.35
      [] signal = "location_mismatch"      -> Dbl(67108864, 0)           \* 0.25
      [] signal = "rapid_submissions"      -> Dbl(53687091, 107374184)   \* 0.2
      [] signal = "known_fraud_pattern"    -> Dbl(134217728, 0)          \* 0.5
      [] signal = "missing_timestamp"      -> Dbl(26843545, 322122548)   \* 0.1
      [] signal = "unusual_hour"           -> Dbl(13421772, 429496730)   \* 0.05
      [] OTHER                             -> Dbl(40265318, 214748364)   \* 0.15

\* signal_weights.get(signal, 0.15), each weight as the double of its literal
signal_weight(signal) ==
    CASE signal = "duplicate_image"        -> Dbl(107374182, 214748368)  \* 0.4
      [] signal = "similar_image_detected" -> Dbl(80530636, 429496728)   \* 0.3
      [] signal = "old_photo"              -> Dbl(93952409, 322122544)   \* 0.35
      [] signal = "location_mismatch"      -> Dbl(67108864, 0)           \* 0.25
      [] signal = "rapid_submissions"      -> Dbl(53687091, 107374184)   \* 0.2
      [] signal = "known_fraud_pattern"    -> Dbl(134217728, 0)          \* 0.5
      [] signal = "missing_timestamp"      -> Dbl(26843545, 322122548)   \* 0.1
      [] signal = "unusual_hour"           -> Dbl(13421772, 429496730)   \* 0.05
      [] OTHER                             -> Dbl(40265318, 214748364)   \* 0.15

\* the loop of _calculate_fraud_score: score += weight, signal by signal
RECURSIVE sum_weights(_, _)
sum_weights(signals, n) ==
    IF n = 0 THEN F_0_0
    ELSE FAdd(sum_weights(signals, n - 1), signal_weight(signals[n]))

\* _calculate_fraud_score with the final min(score, 1.0) left out
calculate_fraud_score_uncapped(signals) == sum_weights(signals, Len(signals))

\* _calculate_fraud_score
calculate_fraud_score(signals) ==
    FMin(sum_weights(signals, Len(signals)), F_1_0)

(***************************************************************************)
(* brain.py: decision synthesis                                            *)
(***************************************************************************)
\* confidence / 100.0 for the whole-number confidences the model feeds in
PctDouble(c) ==
    CASE c = 0   -> Dbl(0, 0)
      [] c = 50  -> Dbl(134217728, 0)
      [] c = 60  -> Dbl(161061273, 322122544)
      [] c = 61  -> Dbl(163745628, 85899344)
      [] c = 85  -> Dbl(228170137, 322122544)
      [] c = 86  -> Dbl(230854492, 85899344)
      [] c = 99  -> Dbl(265751101, 236223200)
      [] c = 100 -> Dbl(268435456, 0)

Confidences == {0, 50, 60, 61, 85, 86, 99, 100}

\* A classifier result as _make_decision reads it: the "verdict" entry (or
\* "missing"), and the "confidence" entry: a number, missing, or a value that
\* is no number (a string, null).
VisionResult(verdict, conf_kind, conf) ==
    [verdict |-> verdict, conf_kind |-> conf_kind, confidence |-> conf]

\* vision_result.get("verdict", "unclear")
vision_verdict_of(vision) ==
    IF vision.verdict = "missing" THEN "unclear" ELSE vision.verdict

\* vision_result.get("confidence", 0) / 100.0
vision_confidence_of(vision) ==
    IF vision.conf_kind = "missing" THEN PctDouble(0)
    ELSE PctDouble(vision.confidence)

Decision(verdict, confidence, tier, reason) ==
    [raised |-> FALSE, verdict |-> verdict, confidence |-> confidence,
     confidence_tier |-> tier, primary_reason |-> reason]

\* the TypeError of line 194 when the confidence entry is no number
DecisionRaised ==
    [raised |-> TRUE, verdict |-> "none", confidence |-> F_0_0,
     confidence_tier |-> "none", primary_reason |-> "none"]

\* _make_decision with the fraud override placed after the reject rule
make_decision_override_late(vision, fraud_score) ==
    LET vision_verdict    == vision_verdict_of(vision)
        vision_confidence == vision_confidence_of(vision)
    IN  IF vision.conf_kind = "other" THEN DecisionRaised
        ELSE IF vision_verdict = "approve" /\ FLess(F_0_85, vision_confidence)
                /\ FLess(fraud_score, F_0_3)
        THEN Decision("approved", vision_confidence, "high", "vision_approved")
        ELSE IF vision_verdict = "approve" /\ FLess(F_0_6, vision_confidence)
                /\ FLess(fraud_score, F_0_5)
        THEN Decision("approved", vision_confidence, "medium", "vision_approved")
        ELSE IF vision_verdict = "reject"
        THEN Decision("rejected", FSub(F_1_0, vision_confidence), "high",
                      "vision_rejected")
        ELSE IF FLess(F_0_7, fraud_score)
        THEN Decision("fraud_detected", fraud_score, "high", "fraud_patterns")
        ELSE Decision("unclear", F_0_5, "low", "insufficient_confidence")

\* _make_decision with >= 0.85 for > 0.85 in the first approval rule
make_decision_geq(vision, fraud_score) ==
    LET vision_verdict    == vision_verdict_of(vision)
        vision_confidence == vision_confidence_of(vision)
    IN  IF vision.conf_kind = "other" THEN DecisionRaised
        ELSE IF FLess(F_0_7, fraud_score)
        THEN Decision("fraud_detected", fraud_score, "high", "fraud_patterns")
        ELSE IF vision_verdict = "approve" /\ FLeq(F_0_85, vision_confidence)
                /\ FLess(fraud_score, F_0_3)
        THEN Decision("approved", vision_confidence, "high", "vision_approved")
        ELSE IF vision_verdict = "approve" /\ FLess(F_0_6, vision_confidence)
                /\ FLess(fraud_score, F_0_5)
        THEN Decision("approved", vision_confidence, "medium", "vision_approved")
        ELSE IF vision_verdict = "reject"
        THEN Decision("rejected", FSub(F_1_0, vision_confidence), "high",
                      "vision_rejected")
        ELSE Decision("unclear", F_0_5, "low", "insufficient_confidence")

\* _make_decision
make_decision(vision, fraud_score) ==
    LET vision_verdict    == vision_verdict_of(vision)
        vision_confidence == vision_confidence_of(vision)
    IN  IF vision.conf_kind = "other" THEN DecisionRaised
        ELSE IF FLess(F_0_7, fraud_score)
        THEN Decision("fraud_detected", fraud_score, "high", "fraud_patterns")
        ELSE IF vision_verdict = "approve" /\ FLess(F_0_85, vision_confidence)
                /\ FLess(fraud_score, F_0_3)
        THEN Decision("approved", vision_confidence, "high", "vision_approved")
        ELSE IF vision_verdict = "approve" /\ FLess(F_0_6, vision_confidence)
                /\ FLess(fraud_score, F_0_5)
        THEN Decision("approved", vision_confidence, "medium", "vision_approved")
        ELSE IF vision_verdict = "reject"
        THEN Decision("rejected", FSub(F_1_0, vision_confidence), "high",
                      "vision_rejected")
        ELSE Decision("unclear", F_0_5, "low", "insufficient_confidence")

(***************************************************************************)
(* fraud_detector.py: the five checks and the history                      *)
(***************************************************************************)
\* Evidence: its bytes, whether PIL can open it, and the bits set in its
\* 64-bit perceptual hash.
Image(bytes, decodable, bits) ==
    [bytes |-> bytes, decodable |-> decodable, bits |-> bits]

ImgA == Image("a", TRUE, {})

ImgB == Image("b", TRUE, {1, 2, 3})

ImgC == Image("c", TRUE, {1, 2, 3, 4, 5, 6})

ImgD == Image("d", FALSE, {})

\* _compute_file_hash: SHA-256 of the bytes, taken to be free of collisions
compute_file_hash(img) == <<"sha256", img.bytes>>

\* the empty string _compute_perceptual_hash returns when the image cannot
\* be opened
EmptyHash == [hex |-> FALSE, bits |-> {}]

\* _compute_perceptual_hash: str(imagehash.phash(img)), or ""
compute_perceptual_hash(img) ==
    IF img.decodable THEN [hex |-> TRUE, bits |-> img.bits] ELSE EmptyHash

\* _is_duplicate_hash without the filter on user_id
is_duplicate_hash_any_user(atts, file_hash, user_id) ==
    \E i \in DOMAIN atts : atts[i].image_hash = file_hash

\* _is_duplicate_hash
is_duplicate_hash(atts, file_hash, user_id) ==
    \E i \in DOMAIN atts :
        atts[i].user_id = user_id /\ atts[i].image_hash = file_hash

\* target_hash - attempt_hash: the Hamming distance
hamming(a, b) == Cardinality((a \ b) \cup (b \ a))

\* _find_similar_images with a stored empty hash read as the hash of no bits
find_similar_images_empty_matches(atts, perceptual_hash, user_id) ==
    IF ~perceptual_hash.hex THEN {}
    ELSE {i \in DOMAIN atts :
            /\ atts[i].user_id = user_id
            /\ hamming(perceptual_hash.bits, atts[i].perceptual_hash.bits) <= 5}

\* _find_similar_images: the ids of the similar attempts.  A stored empty
\* hash makes hex_to_hash or the subtraction raise, and the attempt is skipped.
find_similar_images(atts, perceptual_hash, user_id) ==
    IF ~perceptual_hash.hex THEN {}
    ELSE {i \in DOMAIN atts :
            /\ atts[i].user_id = user_id
            /\ atts[i].perceptual_hash.hex
            /\ hamming(perceptual_hash.bits, atts[i].perceptual_hash.bits) <= 5}

\* metadata["timestamp"]: absent; a falsy value (None, ""); an ISO-8601 string
\* of a given age; a string that does not parse; a datetime object
Timestamp(kind, age_hours, age_minutes, hour) ==
    [kind |-> kind, age_hours |-> age_hours, age_minutes |-> age_minutes,
     hour |-> hour]

TsAbsent == Timestamp("absent", 0, 0, 0)

TsEmpty == Timestamp("empty", 0, 0, 0)

TsGarbage == Timestamp("garbage", 0, 0, 0)

TsIso(age_hours, age_minutes) == Timestamp("iso", age_hours, age_minutes, 0)

TsDatetime(hour) == Timestamp("datetime", 0, 0, hour)

\* metadata: the timestamp entry, and the great-circle distance in km between
\* gps_location and user_location when both are given (the haversine
\* arithmetic of _locations_match is not modelled, its result is an input)
Metadata(ts, has_gps, distance_km) ==
    [timestamp |-> ts, has_gps |-> has_gps, distance_km |-> distance_km]

\* _locations_match: distance_km <= tolerance_km
locations_match(distance_km) == distance_km <= 50

\* _check_metadata
check_metadata(metadata) ==
    LET ts == metadata.timestamp
        time_issues ==
            IF ts.kind \in {"absent", "empty"} THEN <<"missing_timestamp">>
            ELSE IF ts.kind = "iso" THEN
                IF ts.age_hours * 60 + ts.age_minutes > 24 * 60
                THEN <<"old_photo", "image_age_" \o ToString(ts.age_hours) \o "h">>
                ELSE <<>>
            ELSE <<"invalid_timestamp">>
        gps_issues ==
            IF metadata.has_gps /\ ~locations_match(metadata.distance_km)
            THEN <<"location_mismatch">> ELSE <<>>
    IN  time_issues \o gps_issues

current_hour(t) == (t \div TicksPerHour) % 24

\* _check_temporal_patterns counting the attempts of every user
check_temporal_patterns_any_user(atts, user_id, t) ==
    LET recent_cutoff == t - TicksPerHour
        recent_count ==
            Cardinality({i \in DOMAIN atts : atts[i].timestamp > recent_cutoff})
    IN  (IF recent_count > 3 THEN <<"rapid_submissions">> ELSE <<>>)
        \o (IF current_hour(t) < 5 \/ current_hour(t) > 23
            THEN <<"unusual_hour">> ELSE <<>>)

\* _check_temporal_patterns
check_temporal_patterns(atts, user_id, t) ==
    LET recent_cutoff == t - TicksPerHour
        recent_count ==
            Cardinality({i \in DOMAIN atts :
                /\ atts[i].user_id = user_id
                /\ atts[i].timestamp > recent_cutoff})
    IN  (IF recent_count > 3 THEN <<"rapid_submissions">> ELSE <<>>)
        \o (IF current_hour(t) < 5 \/ current_hour(t) > 23
            THEN <<"unusual_hour">> ELSE <<>>)

\* x in signals
In(x, signals) == \E i \in DOMAIN signals : signals[i] = x

\* _match_known_patterns with any() in place of all()
match_known_patterns_any(pats, signals) ==
    {k \in DOMAIN pats :
        \E j \in DOMAIN pats[k].detection_rule :
            In(pats[k].detection_rule[j], signals)}

\* _match_known_patterns: the ids of the matching patterns
match_known_patterns(pats, signals) ==
    {k \in DOMAIN pats :
        \A j \in DOMAIN pats[k].detection_rule :
            In(pats[k].detection_rule[j], signals)}

\* checks 1 to 3 of analyze (lines 90 to 110): the signals so far
checks_1_to_3(atts, img, user_id, metadata) ==
    LET s1 == IF is_duplicate_hash(atts, compute_file_hash(img), user_id)
              THEN <<"duplicate_image">> ELSE <<>>
        s2 == IF find_similar_images(atts, compute_perceptual_hash(img),
                                     user_id) # {}
              THEN s1 \o <<"similar_image_detected">> ELSE s1
    IN  s2 \o check_metadata(metadata)

\* checks 4 and 5 with the signal of the pattern match put in front of the
\* list
checks_4_and_5_match_first(atts, pats, s3, user_id, t) ==
    LET s4 == s3 \o check_temporal_patterns(atts, user_id, t)
    IN  IF match_known_patterns(pats, s4) # {}
        THEN <<"known_fraud_pattern">> \o s4 ELSE s4

\* checks 4 and 5 of analyze (lines 113 to 122), s3 being the signals so far
checks_4_and_5(atts, pats, s3, user_id, t) ==
    LET s4 == s3 \o check_temporal_patterns(atts, user_id, t)
    IN  IF match_known_patterns(pats, s4) # {}
        THEN s4 \o <<"known_fraud_pattern">> ELSE s4

\* checks 1 to 5 of analyze: the signal list
analyze_signals(atts, pats, img, user_id, metadata, t) ==
    checks_4_and_5(atts, pats, checks_1_to_3(atts, img, user_id, metadata),
                   user_id, t)

\* The place of a signal name in Python's string order.
StrRank(sig) ==
    CASE sig = "duplicate_image"        -> 1
      [] sig = "invalid_timestamp"      -> 3
      [] sig = "known_fraud_pattern"    -> 4
      [] sig = "location_mismatch"      -> 5
      [] sig = "missing_timestamp"      -> 6
      [] sig = "old_photo"              -> 7
      [] sig = "rapid_submissions"      -> 8
      [] sig = "similar_image_detected" -> 9
      [] sig = "unusual_hour"           -> 10
      [] OTHER                          -> 2     \* image_age_<N>h

\* "_".join(sorted(signals[:2])), kept as the sorted pair: no two pairs of
\* signal names join to the same string
pattern_type_of(signals) ==
    IF StrRank(signals[1]) <= StrRank(signals[2])
    THEN <<signals[1], signals[2]>> ELSE <<signals[2], signals[1]>>

\* _update_patterns counting a repeated combination twice
update_patterns_counts_twice(pats, signals, t) ==
    LET pattern_type == pattern_type_of(signals)
        found == {k \in DOMAIN pats : pats[k].pattern_type = pattern_type}
    IN  IF found # {}
        THEN LET existing == CHOOSE k \in found : \A j \in found : k <= j
             IN  [pats EXCEPT ![existing] =
                     [@ EXCEPT !.times_detected = @ + 2, !.last_updated = t]]
        ELSE Append(pats,
                 [pattern_type |-> pattern_type,
                  detection_rule |-> SubSeq(signals, 1, 2),
                  confidence_threshold |-> F_0_7,
                  times_detected |-> 1,
                  last_updated |-> t])

\* _update_patterns without the lookup of an existing pattern
update_patterns_always_insert(pats, signals, t) ==
    Append(pats,
        [pattern_type |-> pattern_type_of(signals),
         detection_rule |-> SubSeq(signals, 1, 2),
         confidence_threshold |-> F_0_7,
         times_detected |-> 1,
         last_updated |-> t])

\* _update_patterns
update_patterns(pats, signals, t) ==
    LET pattern_type == pattern_type_of(signals)
        found == {k \in DOMAIN pats : pats[k].pattern_type = pattern_type}
    IN  IF found # {}
        THEN LET existing == CHOOSE k \in found : \A j \in found : k <= j
             IN  [pats EXCEPT ![existing] =
                     [@ EXCEPT !.times_detected = @ + 1, !.last_updated = t]]
        ELSE Append(pats,
                 [pattern_type |-> pattern_type,
                  detection_rule |-> SubSeq(signals, 1, 2),
                  confidence_threshold |-> F_0_7,
                  times_detected |-> 1,
                  last_updated |-> t])

\* the FraudAttempt row _log_attempt adds
FraudAttempt(user_id, goal_id, file_hash, perceptual_hash, signals, t) ==
    [user_id |-> user_id, goal_id |-> goal_id, image_hash |-> file_hash,
     perceptual_hash |-> perceptual_hash, detected_signals |-> signals,
     agent_verdict |-> "pending", timestamp |-> t]

\* _log_attempt keeping one record per user and commitment: a later attempt
\* overwrites the earlier one
log_attempt_upsert(atts, pats, user_id, goal_id, file_hash, perceptual_hash, signals, t, fault) ==
    IF fault = "append"
    THEN [attempts |-> atts, patterns |-> pats, raised |-> TRUE]
    ELSE LET rec   == FraudAttempt(user_id, goal_id, file_hash,
                                   perceptual_hash, signals, t)
             same  == {i \in DOMAIN atts : atts[i].user_id = user_id
                                           /\ atts[i].goal_id = goal_id}
             atts1 == IF same = {}
                      THEN Append(atts, rec)
                      ELSE [i \in DOMAIN atts |->
                               IF i \in same THEN rec ELSE atts[i]]
         IN  IF Len(signals) >= 2
             THEN IF fault = "patterns"
                  THEN [attempts |-> atts1, patterns |-> pats, raised |-> TRUE]
                  ELSE [attempts |-> atts1,
                        patterns |-> update_patterns(pats, signals, t),
                        raised |-> FALSE]
             ELSE [attempts |-> atts1, patterns |-> pats, raised |-> FALSE]

\* _log_attempt updating the patterns before it commits the attempt
log_attempt_patterns_first(atts, pats, user_id, goal_id, file_hash, perceptual_hash, signals, t, fault) ==
    LET pats1 == IF Len(signals) >= 2 /\ fault # "patterns"
                 THEN update_patterns(pats, signals, t) ELSE pats
    IN  IF Len(signals) >= 2 /\ fault = "patterns"
        THEN [attempts |-> atts, patterns |-> pats, raised |-> TRUE]
        ELSE IF fault = "append"
        THEN [attempts |-> atts, patterns |-> pats1, raised |-> TRUE]
        ELSE [attempts |-> Append(atts, FraudAttempt(user_id, goal_id, file_hash,
                                                     perceptual_hash, signals, t)),
              patterns |-> pats1, raised |-> FALSE]

\* _log_attempt going on without the record when its commit fails
log_attempt_swallows_failure(atts, pats, user_id, goal_id, file_hash, perceptual_hash, signals, t, fault) ==
    IF fault = "append"
    THEN [attempts |-> atts, patterns |-> pats, raised |-> FALSE]
    ELSE LET atts1 == Append(atts, FraudAttempt(user_id, goal_id, file_hash,
                                                perceptual_hash, signals, t))
         IN  IF Len(signals) >= 2
             THEN IF fault = "patterns"
                  THEN [attempts |-> atts1, patterns |-> pats, raised |-> TRUE]
                  ELSE [attempts |-> atts1,
                        patterns |-> update_patterns(pats, signals, t),
                        raised |-> FALSE]
             ELSE [attempts |-> atts1, patterns |-> pats, raised |-> FALSE]

\* _log_attempt.  fault names the commit that raises: "append" the one of the
\* attempt (nothing is stored), "patterns" the one of _update_patterns.
log_attempt(atts, pats, user_id, goal_id, file_hash, perceptual_hash, signals, t, fault) ==
    IF fault = "append"
    THEN [attempts |-> atts, patterns |-> pats, raised |-> TRUE]
    ELSE LET atts1 == Append(atts, FraudAttempt(user_id, goal_id, file_hash,
                                                perceptual_hash, signals, t))
         IN  IF Len(signals) >= 2
             THEN IF fault = "patterns"
                  THEN [attempts |-> atts1, patterns |-> pats, raised |-> TRUE]
                  ELSE [attempts |-> atts1,
                        patterns |-> update_patterns(pats, signals, t),
                        raised |-> FALSE]
             ELSE [attempts |-> atts1, patterns |-> pats, raised |-> FALSE]

\* analyze: the result returned ("score", "signals") and the two tables
analyze(atts, pats, img, user_id, goal_id, metadata, t, fault) ==
    LET signals == analyze_signals(atts, pats, img, user_id, metadata, t)
        logged  == log_attempt(atts, pats, user_id, goal_id,
                               compute_file_hash(img),
                               compute_perceptual_hash(img), signals, t, fault)
    IN  [score |-> calculate_fraud_score(signals), signals |-> signals,
         attempts |-> logged.attempts, patterns |-> logged.patterns,
         raised |-> logged.raised]

\* _select_personality with the strict tone for a rejection
select_personality_strict_on_reject(verdict, hour) ==
    IF hour < 9 /\ verdict = "approved" THEN "encouraging"
    ELSE IF verdict = "fraud_detected" THEN "strict"
    ELSE IF verdict = "rejected" THEN "strict"
    ELSE IF verdict = "approved" THEN "encouraging"
    ELSE "neutral"

(***************************************************************************)
(* brain.py: the pipeline                                                  *)
(***************************************************************************)
\* _select_personality
select_personality(verdict, hour) ==
    IF hour < 9 /\ verdict = "approved" THEN "encouraging"
    ELSE IF verdict = "fraud_detected" THEN "strict"
    ELSE IF verdict = "rejected" THEN "neutral"
    ELSE IF verdict = "approved" THEN "encouraging"
    ELSE "neutral"

\* metadata.get("timestamp", datetime.utcnow()).hour raises AttributeError
\* unless the entry is absent or a datetime
hour_raises(metadata) ==
    metadata.timestamp.kind \notin {"absent", "datetime"}

submission_hour(metadata, t) ==
    IF metadata.timestamp.kind = "datetime" THEN metadata.timestamp.hour
    ELSE current_hour(t)

\* goal_id.isdigit(), for the goal identifiers of the model
isdigit(goal_id) == goal_id \in {"1", "2"}

\* step 7 with every verdict but a rejection taken for a success
counts_as_success_unless_rejected(verdict) ==
    verdict \notin {"rejected", "fraud_detected"}

\* step 7: record_success if the verdict is APPROVED, else record_failure
counts_as_success(verdict) == verdict = "approved"

\* process_submission without the try / except of lines 114-124: an
\* exception of record_verification leaves the call
process_submission_ledger_fatal(db, user_id, goal_id, img, metadata, vision, fault, tx, t) ==
    LET fraud    == analyze(db.attempts, db.patterns, img, user_id, goal_id,
                            metadata, t, fault)
        db1      == [db EXCEPT !.attempts = fraud.attempts,
                               !.patterns = fraud.patterns]
        decision == make_decision(vision, fraud.score)
        call     == [NoCall EXCEPT !.op = "process_submission",
                                   !.user = user_id, !.goal = goal_id,
                                   !.metadata = metadata, !.fault = fault]
        analyzed == [call EXCEPT !.analyzed = TRUE, !.signals = fraud.signals,
                                 !.score = fraud.score]
    IN  IF fraud.raised
        THEN [db |-> db1, last |-> [call EXCEPT !.outcome = "raised"]]
        ELSE IF decision.raised \/ hour_raises(metadata)
        THEN [db |-> db1, last |-> [analyzed EXCEPT !.outcome = "raised"]]
        ELSE
        LET personality == select_personality(decision.verdict,
                                              submission_hour(metadata, t))
            approved == counts_as_success(decision.verdict)
            db2 == IF isdigit(goal_id)
                   THEN [db1 EXCEPT !.ledger =
                            Append(@, [goal_id |-> goal_id,
                                       approved |-> decision.verdict = "approved"])]
                   ELSE db1
            blockchain_tx == isdigit(goal_id) /\ tx = "hash"
            adjusted == record_outcome(db2.profiles, user_id, t, approved,
                                       FALSE, fault # "profile")
            db3 == [db2 EXCEPT !.profiles = adjusted.profiles,
                               !.audit = @ \o adjusted.events]
        IN  IF isdigit(goal_id) /\ tx = "raises"
            THEN [db |-> db2, last |-> [analyzed EXCEPT !.outcome = "raised"]]
            ELSE IF adjusted.raised
            THEN [db |-> db3, last |-> [analyzed EXCEPT !.outcome = "raised"]]
            ELSE [db |-> [db3 EXCEPT !.audit =
                            Append(@, [event |-> "proof_verification",
                                       user |-> user_id,
                                       verdict |-> decision.verdict])],
                  last |-> [analyzed EXCEPT !.outcome = "returned",
                                            !.verdict = decision.verdict,
                                            !.personality = personality,
                                            !.blockchain_tx = blockchain_tx]]

\* process_submission, steps 2 to 8.  vision is the classifier's result of
\* step 1, fault the database commit that raises (or "none"), tx what
\* record_verification does: "hash" (a transaction hash), "none", "raises".
process_submission(db, user_id, goal_id, img, metadata, vision, fault, tx, t) ==
    LET fraud    == analyze(db.attempts, db.patterns, img, user_id, goal_id,
                            metadata, t, fault)
        db1      == [db EXCEPT !.attempts = fraud.attempts,
                               !.patterns = fraud.patterns]
        decision == make_decision(vision, fraud.score)
        call     == [NoCall EXCEPT !.op = "process_submission",
                                   !.user = user_id, !.goal = goal_id,
                                   !.metadata = metadata, !.fault = fault]
        analyzed == [call EXCEPT !.analyzed = TRUE, !.signals = fraud.signals,
                                 !.score = fraud.score]
    IN  IF fraud.raised
        THEN [db |-> db1, last |-> [call EXCEPT !.outcome = "raised"]]
        ELSE IF decision.raised \/ hour_raises(metadata)
        THEN [db |-> db1, last |-> [analyzed EXCEPT !.outcome = "raised"]]
        ELSE
        LET personality == select_personality(decision.verdict,
                                              submission_hour(metadata, t))
            approved == counts_as_success(decision.verdict)
            db2 == IF isdigit(goal_id)
                   THEN [db1 EXCEPT !.ledger =
                            Append(@, [goal_id |-> goal_id,
                                       approved |-> decision.verdict = "approved"])]
                   ELSE db1
            blockchain_tx == isdigit(goal_id) /\ tx = "hash"
            adjusted == record_outcome(db2.profiles, user_id, t, approved,
                                       FALSE, fault # "profile")
            db3 == [db2 EXCEPT !.profiles = adjusted.profiles,
                               !.audit = @ \o adjusted.events]
        IN  IF adjusted.raised
            THEN [db |-> db3, last |-> [analyzed EXCEPT !.outcome = "raised"]]
            ELSE [db |-> [db3 EXCEPT !.audit =
                            Append(@, [event |-> "proof_verification",
                                       user |-> user_id,
                                       verdict |-> decision.verdict])],
                  last |-> [analyzed EXCEPT !.outcome = "returned",
                                            !.verdict = decision.verdict,
                                            !.personality = personality,
                                            !.blockchain_tx = blockchain_tx]]

ProcessSubmission(user_id, goal_id, img, metadata, vision, fault, tx) ==
    /\ \E r \in {process_submission(
                    [profiles |-> profiles, attempts |-> attempts,
                     patterns |-> patterns, ledger |-> ledger, audit |-> audit],
                    user_id, goal_id, img, metadata, vision, fault, tx, now)} :
           /\ profiles' = r.db.profiles
           /\ attempts' = r.db.attempts
           /\ patterns' = r.db.patterns
           /\ ledger' = r.db.ledger
           /\ audit' = r.db.audit
           /\ last' = r.last
    /\ ncalls' = ncalls + 1
    /\ UNCHANGED <<now, arg, res, tasks>>

\* the clock moves on by half an hour
Tick ==
    /\ now < StartTime + MaxTicks
    /\ now' = now + 1
    /\ UNCHANGED <<profiles, attempts, patterns, ledger, audit, last, ncalls,
                   arg, res, tasks>>

Init ==
    /\ profiles = NoProfiles
    /\ attempts = <<>>
    /\ patterns = <<>>
    /\ now = StartTime
    /\ ledger = <<>>
    /\ audit = <<>>
    /\ last = NoCall
    /\ ncalls = 0
    /\ tasks = <<>>
    /\ arg = NoArg
    /\ res = NoArg

\* the submissions of the base model
BaseImages == {ImgA, ImgB}

BaseMetadata ==
    {Metadata(TsAbsent, FALSE, 0), Metadata(TsIso(0, 0), FALSE, 0),
     Metadata(TsDatetime(10), FALSE, 0)}

BaseVisions ==
    {VisionResult("approve", "number", 99), VisionResult("reject", "number", 85),
     VisionResult("unclear", "number", 50)}

BaseFaults == {"none", "append"}

Next ==
    \/ \E u \in Users, img \in BaseImages, m \in BaseMetadata,
          v \in BaseVisions, f \in BaseFaults :
            ncalls < MaxCalls /\ ProcessSubmission(u, "1", img, m, v, f, "hash")
    \/ Tick

Spec == Init /\ [][Next]_vars

\* Longer histories of fewer kinds of submission: every submission has no
\* timestamp and is approved by the classifier at confidence 99.
HistoryGoals == {"1", "gym"}

HistoryFaults == {"none", "append", "patterns", "profile"}

NextHistory ==
    \E u \in Users, g \in HistoryGoals, img \in BaseImages,
       f \in HistoryFaults :
        /\ ncalls < MaxHistory
        /\ ProcessSubmission(u, g, img, Metadata(TsAbsent, FALSE, 0),
                             VisionResult("approve", "number", 99), f, "hash")

SpecHistory == Init /\ [][NextHistory]_vars

(***************************************************************************)
(* analyze calls that are in flight together.  The coroutines of the event *)
(* loop can change places at an await only; analyze is cut at each of its  *)
(* awaits (lines 113 and 128) and _log_attempt at its own (line 411).      *)
(* _update_patterns has no await between its query and its commit.        *)
(* Every submission comes without a timestamp and every commit succeeds.   *)
(***************************************************************************)
\* A coroutine object analyze(img, u, "1", {}) just created.  seen is the
\* pattern table when the coroutine committed its attempt.
AnalyzeTask(u, img) ==
    [op |-> "analyze", user |-> u, img |-> img, pc |-> "called",
     signals |-> <<>>, score |-> F_0_0, seen |-> <<>>]

\* _update_patterns deciding between insert and increment on the pattern
\* table as it stood before the await of line 411
update_patterns_of_stale(pats, task, t) ==
    LET pattern_type == pattern_type_of(task.signals)
        known == \E k \in DOMAIN task.seen :
                     task.seen[k].pattern_type = pattern_type
    IN  IF known THEN update_patterns(pats, task.signals, t)
        ELSE update_patterns_always_insert(pats, task.signals, t)

\* _update_patterns writing a counter computed from the pattern table as it
\* stood before the await of line 411
update_patterns_of_lost_increment(pats, task, t) ==
    LET pattern_type == pattern_type_of(task.signals)
        before == {k \in DOMAIN task.seen :
                      task.seen[k].pattern_type = pattern_type}
        count  == IF before = {} THEN 1
                  ELSE task.seen[CHOOSE k \in before : TRUE].times_detected + 1
        found  == {k \in DOMAIN pats : pats[k].pattern_type = pattern_type}
    IN  IF found # {}
        THEN [pats EXCEPT ![CHOOSE k \in found : TRUE] =
                 [@ EXCEPT !.times_detected = count, !.last_updated = t]]
        ELSE update_patterns(pats, task.signals, t)

\* await self._update_patterns(signals), lines 416 to 444
update_patterns_of(pats, task, t) == update_patterns(pats, task.signals, t)

CallAnalyze(u, img) ==
    /\ Len(tasks) < MaxAnalyses
    /\ tasks' = Append(tasks, AnalyzeTask(u, img))
    /\ UNCHANGED <<profiles, attempts, patterns, now, ledger, audit, last,
                   ncalls, arg, res>>

\* lines 90 to 110, up to await self._check_temporal_patterns
RunChecks(i) ==
    /\ tasks[i].pc = "called"
    /\ tasks' = [tasks EXCEPT
                   ![i].pc = "checked",
                   ![i].signals = checks_1_to_3(attempts, tasks[i].img,
                                                tasks[i].user,
                                                Metadata(TsAbsent, FALSE, 0))]
    /\ UNCHANGED <<profiles, attempts, patterns, now, ledger, audit, last,
                   ncalls, arg, res>>

\* lines 113 to 125, up to await self._log_attempt
RunTemporal(i) ==
    /\ tasks[i].pc = "checked"
    /\ \E sg \in {checks_4_and_5(attempts, patterns, tasks[i].signals,
                                  tasks[i].user, now)} :
           tasks' = [tasks EXCEPT ![i].pc = "scored", ![i].signals = sg,
                                  ![i].score = calculate_fraud_score(sg)]
    /\ UNCHANGED <<profiles, attempts, patterns, now, ledger, audit, last,
                   ncalls, arg, res>>

\* _log_attempt, lines 395 to 410, up to await self._update_patterns
CommitAttempt(i) ==
    /\ tasks[i].pc = "scored"
    /\ attempts' = Append(attempts,
                      FraudAttempt(tasks[i].user, "1",
                                   compute_file_hash(tasks[i].img),
                                   compute_perceptual_hash(tasks[i].img),
                                   tasks[i].signals, now))
    /\ tasks' = [tasks EXCEPT
                   ![i].pc = IF Len(tasks[i].signals) >= 2 THEN "logged"
                             ELSE "done",
                   ![i].seen = patterns]
    /\ UNCHANGED <<profiles, patterns, now, ledger, audit, last, ncalls, arg,
                   res>>

\* _update_patterns, then analyze returns
UpdatePatterns(i) ==
    /\ tasks[i].pc = "logged"
    /\ patterns' = update_patterns_of(patterns, tasks[i], now)
    /\ tasks' = [tasks EXCEPT ![i].pc = "done"]
    /\ UNCHANGED <<profiles, attempts, now, ledger, audit, last, ncalls, arg,
                   res>>

NextAnalyze ==
    \/ \E u \in Users, img \in BaseImages : CallAnalyze(u, img)
    \/ \E i \in DOMAIN tasks : RunChecks(i)
    \/ \E i \in DOMAIN tasks : RunTemporal(i)
    \/ \E i \in DOMAIN tasks : CommitAttempt(i)
    \/ \E i \in DOMAIN tasks : UpdatePatterns(i)

SpecAnalyze == Init /\ [][NextAnalyze]_vars

(***************************************************************************)
(* The fraud score as a function of the signal list.                       *)
(***************************************************************************)
SignalNames ==
    {"duplicate_image", "similar_image_detected", "old_photo",
     "location_mismatch", "rapid_submissions", "known_fraud_pattern",
     "missing_timestamp", "unusual_hour", "invalid_timestamp", "image_age_26h"}

\* signals with sig put in front of position pos
InsertAt(signals, pos, sig) ==
    SubSeq(signals, 1, pos - 1) \o <<sig>> \o SubSeq(signals, pos, Len(signals))

InitScore ==
    /\ profiles = NoProfiles
    /\ attempts = <<>>
    /\ patterns = <<>>
    /\ now = StartTime
    /\ ledger = <<>>
    /\ audit = <<>>
    /\ last = NoCall
    /\ ncalls = 0
    /\ tasks = <<>>
    /\ arg \in {[kind |-> "signals", signals |-> s] :
                    s \in {<<>>} \cup {<<x>> : x \in SignalNames}}
    /\ res = [kind |-> "none", score |-> F_0_0]

\* score the list
ScoreSignals ==
    /\ res.kind = "none"
    /\ res' = [kind |-> "score", score |-> calculate_fraud_score(arg.signals)]
    /\ UNCHANGED <<profiles, attempts, patterns, now, ledger, audit, last,
                   ncalls, arg, tasks>>

\* score a list with one more signal, put anywhere in it
ScoreSuperset(pos, sig) ==
    /\ res.kind = "score"
    /\ Len(arg.signals) < MaxSignals
    /\ pos \in 1..(Len(arg.signals) + 1)
    /\ arg' = [arg EXCEPT !.signals = InsertAt(arg.signals, pos, sig)]
    /\ res' = [kind |-> "score", score |-> calculate_fraud_score(arg'.signals)]
    /\ UNCHANGED <<profiles, attempts, patterns, now, ledger, audit, last, ncalls, tasks>>

NextScore ==
    \/ ScoreSignals
    \/ \E pos \in 1..MaxSignals, sig \in SignalNames : ScoreSuperset(pos, sig)

SpecScore == InitScore /\ [][NextScore]_vars

(***************************************************************************)
(* Decision synthesis as a function of its three inputs.                   *)
(***************************************************************************)
\* fraud scores around the thresholds: literals, and sums the scorer yields
SynthScores ==
    {F_0_0, F_0_3, F_0_5, F_0_7, F_1_0,
     Dbl(77846282, 128849016),     \* 0.29
     Dbl(131533373, 236223200),    \* 0.49
     Dbl(185220464, 343597376),    \* 0.69
     Dbl(190589173, 408021888),    \* 0.71
     calculate_fraud_score(<<"missing_timestamp", "rapid_submissions">>),
     calculate_fraud_score(<<"similar_image_detected", "invalid_timestamp",
                             "unusual_hour">>),
     calculate_fraud_score(<<"duplicate_image", "location_mismatch",
                             "unusual_hour">>)}

SynthVisions ==
    {VisionResult(v, "number", c) :
        v \in {"approve", "reject", "unclear", "other", "missing"},
        c \in Confidences}
    \cup {VisionResult(v, k, 0) :
        v \in {"approve", "reject", "unclear"}, k \in {"missing", "other"}}

InitSynth ==
    /\ profiles = NoProfiles
    /\ attempts = <<>>
    /\ patterns = <<>>
    /\ now = StartTime
    /\ ledger = <<>>
    /\ audit = <<>>
    /\ last = NoCall
    /\ ncalls = 0
    /\ tasks = <<>>
    /\ arg \in {[kind |-> "synthesize", vision |-> v, score |-> f] :
                    v \in SynthVisions, f \in SynthScores}
    /\ res = [kind |-> "none", decision |-> DecisionRaised]

Synthesize ==
    /\ res.kind = "none"
    /\ res' = [kind |-> "decision",
               decision |-> make_decision(arg.vision, arg.score)]
    /\ UNCHANGED <<profiles, attempts, patterns, now, ledger, audit, last,
                   ncalls, arg, tasks>>

NextSynth == Synthesize

SpecSynth == InitSynth /\ [][NextSynth]_vars

(***************************************************************************)
(* Claims                                                                  *)
(***************************************************************************)

\* C1: in every reachable state every profile's current stake is at least
\* 10 and at most 500, whatever sequence of RecordSuccess and RecordFailure
\* calls has run.
C1_StakeWithinBounds ==
    \A u \in DOMAIN profiles :
        /\ RatLeq(Rat(10, 1), profiles[u].current_stake)
        /\ RatLeq(profiles[u].current_stake, Rat(500, 1))

\* Both clamps have acted: one profile sits on the cap after a further
\* streak raise, another on the floor after a compassion reduction.
C1_Witness ==
    /\ \E u \in DOMAIN profiles :
          /\ profiles[u].current_streak >= 25
          /\ profiles[u].current_stake = Rat(500, 1)
    /\ \E u \in DOMAIN profiles :
          /\ profiles[u].recent_failures >= 2
          /\ profiles[u].current_stake = Rat(10, 1)

\* C2: a profile's compassion-mode flag is true only if its recent-failure
\* counter is at least 2.
C2_CompassionImpliesRecentFailures ==
    \A u \in DOMAIN profiles :
        profiles[u].compassion_mode => profiles[u].recent_failures >= 2

\* One profile is in compassion mode and another has left it by a success
\* that followed two or more consecutive failures.
C2_Witness ==
    /\ \E u \in DOMAIN profiles :
          profiles[u].compassion_mode /\ profiles[u].recent_failures >= 2
    /\ \E u \in DOMAIN profiles :
          /\ profiles[u].total_failures >= 2
          /\ profiles[u].total_successes = 1
          /\ profiles[u].current_streak = 1
          /\ ~profiles[u].compassion_mode

\* The value of a column of u's row before a call: the column default when
\* the row does not exist yet.
ColumnBefore(u, col) ==
    IF u \in DOMAIN profiles THEN profiles[u][col] ELSE UserProfile[col]

\* C10: RecordSuccess(u) increases u's streak and lifetime-success count by
\* exactly 1, sets the recent-failure counter to 0 and compassion mode to
\* false, and leaves the lifetime-failure count unchanged.
C10_RecordSuccessEffect ==
    [][ (ncalls' = ncalls + 1 /\ last'.op = "record_success") =>
          LET u == last'.user
          IN  /\ u \in DOMAIN profiles'
              /\ profiles'[u].current_streak = ColumnBefore(u, "current_streak") + 1
              /\ profiles'[u].total_successes = ColumnBefore(u, "total_successes") + 1
              /\ profiles'[u].recent_failures = 0
              /\ profiles'[u].compassion_mode = FALSE
              /\ profiles'[u].total_failures = ColumnBefore(u, "total_failures")
      ]_vars

\* RecordSuccess has just run on a profile that was in compassion mode after
\* three consecutive failures.
C10_Witness ==
    /\ last.op = "record_success"
    /\ last.user \in DOMAIN profiles
    /\ profiles[last.user].total_failures = 3
    /\ profiles[last.user].total_successes = 1
    /\ profiles[last.user].current_streak = 1
    /\ profiles[last.user].recent_failures = 0

\* C3: process_submission mutates the submitting user's profile exactly once
\* per returned verdict: RecordSuccess exactly when the verdict is APPROVED,
\* RecordFailure for every other verdict, never both and never neither.
C3_OneProfileMutationPerVerdict ==
    [][ (ncalls' = ncalls + 1 /\ last'.op = "process_submission"
             /\ last'.outcome = "returned") =>
          LET u  == last'.user
              ds == profiles'[u].total_successes - ColumnBefore(u, "total_successes")
              df == profiles'[u].total_failures - ColumnBefore(u, "total_failures")
          IN  /\ last'.verdict \in {"approved", "rejected", "unclear",
                                    "fraud_detected"}
              /\ last'.verdict = "approved" => (ds = 1 /\ df = 0)
              /\ last'.verdict # "approved" => (ds = 0 /\ df = 1)
              /\ \A w \in DOMAIN profiles' \ {u} :
                     w \in DOMAIN profiles /\ profiles'[w] = profiles[w]
      ]_vars

\* A submission of a user with one earlier success came back UNCLEAR and was
\* counted as that user's first failure.
C3_Witness ==
    /\ last.op = "process_submission"
    /\ last.outcome = "returned"
    /\ last.verdict = "unclear"
    /\ profiles[last.user].total_successes = 1
    /\ profiles[last.user].total_failures = 1

\* C6: a stored submission carries duplicate_image exactly when an earlier
\* stored record of the same user has the same content fingerprint.
C6_DuplicateIffEarlierSameUser ==
    \A i \in DOMAIN attempts :
        In("duplicate_image", attempts[i].detected_signals) <=>
            \E j \in 1..(i - 1) :
                /\ attempts[j].user_id = attempts[i].user_id
                /\ attempts[j].image_hash = attempts[i].image_hash

\* The same bytes were submitted by u1, then by u2 (not flagged), then by u1
\* again (flagged).
C6_Witness ==
    /\ Len(attempts) = 3
    /\ attempts[1].user_id = "u1" /\ attempts[2].user_id = "u2"
    /\ attempts[3].user_id = "u1"
    /\ attempts[2].image_hash = attempts[1].image_hash
    /\ attempts[3].image_hash = attempts[1].image_hash
    /\ ~In("duplicate_image", attempts[2].detected_signals)
    /\ In("duplicate_image", attempts[3].detected_signals)

\* C7: an analyze call that returns has appended exactly one record, for that
\* user and commitment, with its content fingerprint and the verdict
\* "pending"; no step removes or alters an earlier record, and no step adds
\* more than one.
C7_HistoryGrowsByOne ==
    [][ /\ Len(attempts') \in {Len(attempts), Len(attempts) + 1}
        /\ SubSeq(attempts', 1, Len(attempts)) = attempts
        /\ (ncalls' = ncalls + 1 /\ last'.analyzed) =>
              /\ Len(attempts') = Len(attempts) + 1
              /\ LET rec == attempts'[Len(attempts')]
                  IN  /\ rec.user_id = last'.user
                      /\ rec.goal_id = last'.goal
                      /\ rec.image_hash[1] = "sha256"
                      /\ rec.detected_signals = last'.signals
                      /\ rec.agent_verdict = "pending"
      ]_vars

\* Three submissions are on record, the last call was analysed, and its
\* record follows an earlier one of the same user and commitment.
C7_Witness ==
    /\ Len(attempts) = 3
    /\ last.analyzed
    /\ \E i \in 1..2 : /\ attempts[i].user_id = attempts[3].user_id
                       /\ attempts[i].goal_id = attempts[3].goal_id

\* C8: once process_submission has returned a verdict, the record created
\* for that submission holds that verdict in place of "pending".
C8_VerdictBackfilled ==
    (last.op = "process_submission" /\ last.outcome = "returned") =>
        attempts[Len(attempts)].agent_verdict = last.verdict

\* C4: whenever the fraud score is above 0.70, Synthesize returns
\* FRAUD_DETECTED with confidence equal to the fraud score and tier high, for
\* every classifier verdict and every (numeric or absent) classifier
\* confidence.
C4_FraudOverrideWins ==
    (res.kind = "decision" /\ arg.vision.conf_kind # "other"
         /\ FLess(F_0_7, arg.score)) =>
        /\ ~res.decision.raised
        /\ res.decision.verdict = "fraud_detected"
        /\ res.decision.confidence = arg.score
        /\ res.decision.confidence_tier = "high"

\* The classifier approved at confidence 99 and the fraud score is 0.71.
C4_Witness ==
    /\ res.kind = "decision"
    /\ arg.vision = VisionResult("approve", "number", 99)
    /\ arg.score = Dbl(190589173, 408021888)
    /\ res.decision.verdict = "fraud_detected"

RECURSIVE C9_WeightSum(_)
C9_WeightSum(signals) ==
    IF signals = <<>> THEN F_0_0
    ELSE LET sig == signals[Len(signals)]
             w == CASE sig = "duplicate_image"        -> Dbl(107374182, 214748368)
                    [] sig = "similar_image_detected" -> F_0_3
                    [] sig = "old_photo"              -> Dbl(93952409, 322122544)
                    [] sig = "location_mismatch"      -> Dbl(67108864, 0)
                    [] sig = "rapid_submissions"      -> Dbl(53687091, 107374184)
                    [] sig = "known_fraud_pattern"    -> F_0_5
                    [] sig = "missing_timestamp"      -> Dbl(26843545, 322122548)
                    [] sig = "unusual_hour"           -> Dbl(13421772, 429496730)
                    [] OTHER                          -> Dbl(40265318, 214748364)
         IN  FAdd(C9_WeightSum(SubSeq(signals, 1, Len(signals) - 1)), w)

\* C9: the fraud score is the sum of the fixed weights of the signals present
\* (0.15 for an unlisted one) capped at 1.0, lies within [0, 1], and does not
\* decrease when the list is extended to a superset.
C9_ScoreCappedMonotone ==
    [][ res'.kind = "score" =>
          /\ res'.score = FMin(C9_WeightSum(arg'.signals), F_1_0)
          /\ FLeq(F_0_0, res'.score) /\ FLeq(res'.score, F_1_0)
          /\ res.kind = "score" => FLeq(res.score, res'.score)
      ]_vars

\* A list whose weights add up to more than 1.0 was scored, after it was
\* extended from a list scoring less than 1.0.
C9_Witness ==
    /\ res.kind = "score"
    /\ arg.signals = <<"duplicate_image", "unusual_hour", "old_photo",
                       "known_fraud_pattern">>
    /\ res.score = F_1_0

\* C11: record_success sets the stake to min(old stake * 1.2, 500) exactly
\* when the streak after the increment is >= 3 and leaves it unchanged
\* otherwise; on a fresh profile the first two successes leave the stake at
\* 10 and the third gives streak 3 and stake 12.
C11_StakeRaisedFromThirdSuccess ==
    [][ (ncalls' = ncalls + 1 /\ last'.op = "record_success") =>
          LET u   == last'.user
              old == ColumnBefore(u, "current_stake")
              new == profiles'[u]
          IN  /\ new.current_streak >= 3 =>
                    new.current_stake = RatMin(RatMul(old, 6, 5), Rat(500, 1))
              /\ new.current_streak < 3 => new.current_stake = old
              /\ (new.total_failures = 0 /\ new.total_successes \in {1, 2}) =>
                    new.current_stake = Rat(10, 1)
              /\ (new.total_failures = 0 /\ new.total_successes = 3) =>
                    (new.current_streak = 3 /\ new.current_stake = Rat(12, 1))
      ]_vars

\* The third success in a row of a fresh profile has raised its stake to 12.
C11_Witness ==
    /\ last.op = "record_success"
    /\ last.user \in DOMAIN profiles
    /\ profiles[last.user].total_failures = 0
    /\ profiles[last.user].total_successes = 3
    /\ profiles[last.user].current_streak = 3
    /\ profiles[last.user].current_stake = Rat(12, 1)

\* C12: record_failure sets the streak to 0, adds exactly 1 to total_failures
\* and to recent_failures, and leaves total_successes unchanged.
C12_RecordFailureEffect ==
    [][ (ncalls' = ncalls + 1 /\ last'.op = "record_failure") =>
          LET u == last'.user
          IN  /\ profiles'[u].current_streak = 0
              /\ profiles'[u].total_failures = ColumnBefore(u, "total_failures") + 1
              /\ profiles'[u].recent_failures = ColumnBefore(u, "recent_failures") + 1
              /\ profiles'[u].total_successes = ColumnBefore(u, "total_successes")
      ]_vars

\* A first failure has ended a streak of two successes.
C12_Witness ==
    /\ last.op = "record_failure"
    /\ last.user \in DOMAIN profiles
    /\ profiles[last.user].total_successes = 2
    /\ profiles[last.user].total_failures = 1
    /\ profiles[last.user].recent_failures = 1
    /\ profiles[last.user].current_streak = 0

\* C13: record_failure sets compassion_mode and the stake to
\* max(old stake * 0.8, 10) exactly when recent_failures after the increment
\* is >= 2 and changes neither otherwise; two failures in a row on a fresh
\* profile give compassion_mode and stake 10, and the stake is never below 10.
C13_CompassionFromSecondFailure ==
    [][ (ncalls' = ncalls + 1 /\ last'.op = "record_failure") =>
          LET u   == last'.user
              old == ColumnBefore(u, "current_stake")
              new == profiles'[u]
          IN  /\ new.recent_failures >= 2 =>
                    /\ new.compassion_mode
                    /\ new.current_stake = RatMax(RatMul(old, 4, 5), Rat(10, 1))
              /\ new.recent_failures < 2 =>
                    /\ new.compassion_mode = ColumnBefore(u, "compassion_mode")
                    /\ new.current_stake = old
              /\ (new.total_successes = 0 /\ new.total_failures = 2) =>
                    (new.compassion_mode /\ new.current_stake = Rat(10, 1))
              /\ RatLeq(Rat(10, 1), new.current_stake)
      ]_vars

\* Two failures in a row on a fresh profile: compassion mode is on and the
\* stake is held at the floor.
C13_Witness ==
    /\ last.op = "record_failure"
    /\ last.user \in DOMAIN profiles
    /\ profiles[last.user].total_successes = 0
    /\ profiles[last.user].total_failures = 2
    /\ profiles[last.user].compassion_mode
    /\ profiles[last.user].current_stake = Rat(10, 1)

\* C14: with every commit succeeding, process_submission returns one of the
\* four verdicts whatever the metadata holds (no timestamp, unparsable text,
\* ISO-8601 text, GPS fields or none).
C14_MetadataNeverAborts ==
    (last.op = "process_submission" /\ last.fault = "none") =>
        /\ last.outcome = "returned"
        /\ last.verdict \in {"approved", "rejected", "unclear", "fraud_detected"}

\* C15: when the commit of the attempt or the commit of the profile fails,
\* process_submission raises and returns no verdict; when it is the commit
\* of the attempt, the call leaves attempts, patterns, profiles, ledger and
\* audit as they were.
C15_PersistenceFailureIsFatal ==
    [][ (ncalls' = ncalls + 1 /\ last'.op = "process_submission"
             /\ last'.fault \in {"append", "profile"}) =>
          /\ last'.outcome = "raised"
          /\ last'.verdict = "none"
          /\ last'.fault = "append" =>
                UNCHANGED <<attempts, patterns, profiles, ledger, audit>>
      ]_vars

\* With two submissions on record, a third call failed at the commit of its
\* attempt and raised.
C15_Witness ==
    /\ ncalls = 3
    /\ Len(attempts) = 2
    /\ last.op = "process_submission"
    /\ last.fault = "append"
    /\ last.outcome = "raised"
    /\ \E u \in DOMAIN profiles : profiles[u].total_failures = 1

\* the profile table after the first n commits made one after another
RECURSIVE C16_SerialTable(_)
C16_SerialTable(n) ==
    IF n = 0 THEN ConcProfiles
    ELSE LET i == CHOOSE j \in DOMAIN tasks : tasks[j].commit_no = n
         IN  record_outcome(C16_SerialTable(n - 1), tasks[i].user, now,
                            tasks[i].op = "record_success", TRUE, TRUE).profiles

\* C16: whatever the interleaving of record_success and record_failure
\* calls, the profile table equals the result of running the committed calls
\* one after another in the order of their commits, and no call is lost:
\* each user's successes and failures count that user's committed calls.
C16_CallsAreSerialized ==
    /\ profiles = C16_SerialTable(NCommitted)
    /\ \A u \in Users :
          LET done == {i \in DOMAIN tasks : tasks[i].user = u /\ tasks[i].commit_no > 0}
              had  == IF u \in DOMAIN ConcProfiles
                      THEN ConcProfiles[u].total_successes
                             + ConcProfiles[u].total_failures
                      ELSE 0
          IN  IF u \in DOMAIN profiles
              THEN profiles[u].total_successes + profiles[u].total_failures
                     = had + Cardinality(done)
              ELSE done = {}

\* Three calls for u1, a failure among them, were all created before any of
\* them committed, and all have committed, the last created first.
C16_Witness ==
    /\ Len(tasks) = 3
    /\ \A i \in DOMAIN tasks : /\ tasks[i].user = "u1"
                                /\ tasks[i].seen = ConcProfiles
                                /\ tasks[i].commit_no > 0
    /\ tasks[3].commit_no = 1
    /\ \E i \in DOMAIN tasks : tasks[i].op = "record_failure"
    /\ \E i \in DOMAIN tasks : tasks[i].op = "record_success"

\* C17: a step in which a call for user A commits leaves every other user's
\* row as it was (and creates none), and no other step touches the table.
C17_OtherUsersUntouched ==
    [][ LET committing == {i \in DOMAIN tasks :
                             tasks[i].pc = "called" /\ tasks'[i].pc # "called"}
        IN  /\ committing = {} => profiles' = profiles
            /\ \A i \in committing : \A w \in Users \ {tasks[i].user} :
                   /\ (w \in DOMAIN profiles') = (w \in DOMAIN profiles)
                   /\ w \in DOMAIN profiles => profiles'[w] = profiles[w]
      ]_vars

\* A success for u1 and a failure for u2 were in flight together and both
\* have committed, u2's first.
C17_Witness ==
    /\ Len(tasks) >= 2
    /\ tasks[1].user = "u1" /\ tasks[1].op = "record_success"
    /\ tasks[2].user = "u2" /\ tasks[2].op = "record_failure"
    /\ tasks[1].seen = ConcProfiles /\ tasks[2].seen = ConcProfiles
    /\ tasks[2].commit_no = 1 /\ tasks[1].commit_no = 2
    /\ profiles["u1"].current_streak = 3
    /\ profiles["u2"].total_failures = 1

\* the pattern rows with key pattern_type
C18_Rows(pats, pattern_type) ==
    {k \in DOMAIN pats : pats[k].pattern_type = pattern_type}

\* C18: when analyze has recorded a submission with two or more signals, the
\* pattern keyed by its first two signals (sorted) has times_detected raised
\* by exactly 1 if it existed, or is inserted with times_detected 1 and
\* confidence_threshold 0.7 if it did not, every other pattern staying as it
\* was; a submission with fewer than two signals changes no pattern.
C18_PatternUpsert ==
    [][ (ncalls' = ncalls + 1 /\ last'.op = "process_submission"
             /\ last'.analyzed) =>
          IF Len(last'.signals) < 2
          THEN patterns' = patterns
          ELSE LET key == pattern_type_of(last'.signals)
                   old == C18_Rows(patterns, key)
               IN  IF old # {}
                   THEN /\ Len(patterns') = Len(patterns)
                        /\ \E k \in old :
                              /\ patterns'[k].times_detected =
                                    patterns[k].times_detected + 1
                              /\ \A j \in DOMAIN patterns \ {k} :
                                    patterns'[j] = patterns[j]
                   ELSE /\ Len(patterns') = Len(patterns) + 1
                        /\ SubSeq(patterns', 1, Len(patterns)) = patterns
                        /\ patterns'[Len(patterns')].pattern_type = key
                        /\ patterns'[Len(patterns')].times_detected = 1
                        /\ patterns'[Len(patterns')].confidence_threshold = F_0_7
      ]_vars

\* The last submission had two or more signals and raised the counter of an
\* existing pattern to 2.
C18_Witness ==
    /\ last.op = "process_submission"
    /\ last.analyzed
    /\ Len(last.signals) >= 2
    /\ \E k \in DOMAIN patterns :
          /\ patterns[k].pattern_type = pattern_type_of(last.signals)
          /\ patterns[k].times_detected = 2

\* the recorded submissions whose first two signals are those of pattern k
C20_Observations(k) ==
    {i \in DOMAIN attempts :
        /\ Len(attempts[i].detected_signals) >= 2
        /\ pattern_type_of(attempts[i].detected_signals) = patterns[k].pattern_type}

\* C20: every stored pattern corresponds to at least two recorded
\* submissions exhibiting its signals.
C20_PatternSeenTwice ==
    \A k \in DOMAIN patterns : Cardinality(C20_Observations(k)) >= 2

\* C20 as the code has it: every stored pattern has a hit counter of at
\* least 1 and at most the number of recorded submissions whose first two
\* signals (sorted) are its key, so it corresponds to at least one recorded
\* submission.
C20_PatternSeenOnce ==
    \A k \in DOMAIN patterns :
        /\ patterns[k].times_detected >= 1
        /\ patterns[k].times_detected <= Cardinality(C20_Observations(k))

\* Three submissions are on record; one pattern has been observed once only
\* and another one has a counter below its number of observations, a commit
\* of the pattern table having failed.
C20_Witness ==
    /\ Len(attempts) = 3
    /\ \E k \in DOMAIN patterns :
          /\ patterns[k].times_detected = 1
          /\ Cardinality(C20_Observations(k)) = 1
    /\ \E k \in DOMAIN patterns :
          /\ patterns[k].times_detected = 1
          /\ Cardinality(C20_Observations(k)) = 2

\* C19: at every step, also with analyze calls in flight together, no two
\* patterns have the same pattern_type, no pattern row goes away or changes
\* its key, and no times_detected decreases.
C19_PatternsUniqueAndGrowing ==
    [][ /\ \A j, k \in DOMAIN patterns' :
               patterns'[j].pattern_type = patterns'[k].pattern_type => j = k
        /\ Len(patterns') >= Len(patterns)
        /\ \A k \in DOMAIN patterns :
               /\ patterns'[k].pattern_type = patterns[k].pattern_type
               /\ patterns'[k].times_detected >= patterns[k].times_detected
      ]_vars

\* Two analyze calls with the same first two signals had both committed
\* their attempt before either updated the patterns; the one pattern they
\* share has been counted twice.
C19_Witness ==
    /\ Len(tasks) = 2
    /\ \A i \in DOMAIN tasks : tasks[i].pc = "done" /\ tasks[i].seen = <<>>
    /\ Len(patterns) = 1
    /\ patterns[1].times_detected = 2

\* the signals of a list other than known_fraud_pattern
C21_Found(signals) ==
    {signals[i] : i \in DOMAIN signals} \ {"known_fraud_pattern"}

\* C21: analyze adds known_fraud_pattern exactly when the required signals
\* of at least one stored pattern are all among the signals found for the
\* submission, whichever user's submission the pattern was learned from.
C21_KnownPatternIffSubset ==
    [][ (ncalls' = ncalls + 1 /\ last'.op = "process_submission"
             /\ last'.analyzed) =>
          (In("known_fraud_pattern", last'.signals) <=>
             \E k \in DOMAIN patterns :
                 \A j \in DOMAIN patterns[k].detection_rule :
                     patterns[k].detection_rule[j] \in C21_Found(last'.signals))
      ]_vars

\* The pattern learned from u1's submission was matched against the later
\* submission of u2, which showed a different image.
C21_Witness ==
    /\ Len(attempts) = 2
    /\ attempts[1].user_id = "u1" /\ attempts[2].user_id = "u2"
    /\ attempts[1].image_hash # attempts[2].image_hash
    /\ ~In("known_fraud_pattern", attempts[1].detected_signals)
    /\ In("known_fraud_pattern", attempts[2].detected_signals)
    /\ last.analyzed /\ last.user = "u2"

\* the analyze calls that have gone through _update_patterns with key
\* pattern_type
C22_Updaters(pattern_type) ==
    {i \in DOMAIN tasks :
        /\ tasks[i].pc = "done"
        /\ Len(tasks[i].signals) >= 2
        /\ pattern_type_of(tasks[i].signals) = pattern_type}

\* C22: however the analyze calls interleave, each pattern's times_detected
\* equals the number of calls that have updated its key, the inserting one
\* counted as 1, and every key that has been updated has its pattern.
C22_NoLostIncrement ==
    /\ \A k \in DOMAIN patterns :
          patterns[k].times_detected
              = Cardinality(C22_Updaters(patterns[k].pattern_type))
    /\ \A i \in DOMAIN tasks :
          (tasks[i].pc = "done" /\ Len(tasks[i].signals) >= 2) =>
              \E k \in DOMAIN patterns :
                  patterns[k].pattern_type = pattern_type_of(tasks[i].signals)

\* Calls of two different users had all committed their attempt before any
\* of them updated the patterns, and their common pattern counts them all.
C22_Witness ==
    /\ Len(tasks) = MaxAnalyses
    /\ \A i \in DOMAIN tasks : tasks[i].pc = "done" /\ tasks[i].seen = <<>>
    /\ tasks[1].user # tasks[2].user
    /\ \E k \in DOMAIN patterns : patterns[k].times_detected = MaxAnalyses

\* ---------------------------------------------------------------------------
\* The two advisory queries of the stake adjuster
\* ---------------------------------------------------------------------------

\* longest history of outcomes a profile is built from
MaxOutcomes == 10

\* number of advisory queries in one behaviour
MaxQueries == 2

TicksPerDay == 24 * TicksPerHour

\* duration_days of the goals of the model (the API accepts 7..365)
GoalDuration == 7

\* the clock of the advisory queries: 04:30 of the ninth day
AdviceTime == 8 * TicksPerDay + StartTime

RECURSIVE Replay(_, _)
\* The profile table after record_success / record_failure was called for
\* u1 once per outcome of the history, in order, from the empty table
Replay(outcomes, k) ==
    IF k = 0 THEN NoProfiles
    ELSE record_outcome(Replay(outcomes, k - 1), "u1", 0, outcomes[k], FALSE,
                        TRUE).profiles

Histories == UNION {[1..n -> BOOLEAN] : n \in 0..MaxOutcomes}

\* success_rate > num/den and success_rate < num/den of lines 138 and 141.
\* The quotient s / n is the double nearest to the fraction and the literal
\* the double nearest to num/den; for counts this small two different
\* fractions never round to the same double, so the doubles compare as the
\* fractions do.
rate_above(s, n, num, den) == s * den > num * n

rate_below(s, n, num, den) == s * den < num * n

\* get_recommended_stake with >= and <= at the two thresholds
get_recommended_stake_inclusive(p) ==
    LET s == p.total_successes
        n == p.total_successes + p.total_failures
    IN  IF n = 0 THEN Rat(20, 1)
        ELSE IF ~rate_below(s, n, 4, 5)
        THEN RatMin(RatMul(p.current_stake, 3, 2), Rat(500, 1))
        ELSE IF ~rate_above(s, n, 3, 10)
        THEN RatMax(RatMul(p.current_stake, 7, 10), Rat(10, 1))
        ELSE p.current_stake

\* get_recommended_stake, on the row _get_or_create_profile returned
get_recommended_stake(p) ==
    LET s == p.total_successes
        n == p.total_successes + p.total_failures
    IN  IF n = 0 THEN Rat(20, 1)
        ELSE IF rate_above(s, n, 4, 5)
        THEN RatMin(RatMul(p.current_stake, 3, 2), Rat(500, 1))
        ELSE IF rate_below(s, n, 3, 10)
        THEN RatMax(RatMul(p.current_stake, 7, 10), Rat(10, 1))
        ELSE p.current_stake

\* What session.query(Goal).filter(...).first() gives: an exception (the
\* import or the query fails), None, or the row create_goal stored: started
\* age ticks ago, end_date = start_date + duration_days, one required
\* submission.
LookupRaises == [kind |-> "raises"]

LookupAbsent == [kind |-> "absent"]

Goal(age) ==
    [kind |-> "goal", start_date |-> AdviceTime - age,
     end_date |-> AdviceTime - age + GoalDuration * TicksPerDay,
     duration_days |-> GoalDuration, required_submissions |-> 1]

\* Ages of the goals looked up: half a day; two days, a day and a half and
\* half a day before the deadline; half a day after it.
GoalAges ==
    LET half == TicksPerDay \div 2
    IN  {half, (GoalDuration - 2) * TicksPerDay,
         (GoalDuration - 2) * TicksPerDay + half,
         (GoalDuration - 1) * TicksPerDay + half,
         GoalDuration * TicksPerDay + half}

Lookups == {LookupRaises, LookupAbsent} \cup {Goal(age) : age \in GoalAges}

\* timedelta.days of a difference of two datetimes: whole days, rounded down
days(ticks) == ticks \div TicksPerDay

\* should_send_ultimatum with the handler of lines 190-192 answering False
should_send_ultimatum_no_fallback(p, lookup, t) ==
    IF lookup.kind # "goal" THEN FALSE ELSE p.recent_failures >= 3

\* should_send_ultimatum, on the row _get_or_create_profile returned and the
\* outcome of the goal lookup. Every exception of lines 167-189 is caught at
\* line 190 and leads to the return of line 195.
should_send_ultimatum(p, lookup, t) ==
    LET fallback == p.recent_failures >= 3
    IN  IF lookup.kind = "raises" THEN fallback
        ELSE IF lookup.kind = "absent" THEN fallback
        ELSE
          LET goal == lookup
              days_remaining == days(goal.end_date - t)
              days_elapsed == IF goal.start_date = NoDate THEN 0
                              ELSE days(t - goal.start_date)
              total_submissions == p.total_successes + p.total_failures
              \* completion_rate < required_rate * 0.5, as fractions:
              \* s / total < required / (2 * duration)
              behind ==
                  IF goal.duration_days > 0
                  THEN IF total_submissions > 0
                       THEN p.total_successes * 2 * goal.duration_days
                              < goal.required_submissions * total_submissions
                       ELSE 0 < goal.required_submissions
                  ELSE FALSE
          IN  IF p.recent_failures >= 3 THEN TRUE
              ELSE IF days_remaining > 0 /\ days_elapsed > 0
              THEN IF goal.duration_days = 0 THEN fallback
                   ELSE IF days_remaining * 4 < goal.duration_days /\ behind
                   THEN TRUE
                   ELSE fallback
              ELSE fallback

GetRecommendedStake(u) ==
    /\ ncalls < MaxQueries
    /\ profiles' = get_or_create_profile(profiles, u)
    /\ res' = [kind |-> "stake", value |-> get_recommended_stake(profiles'[u])]
    /\ last' = [NoCall EXCEPT !.op = "get_recommended_stake", !.user = u,
                              !.outcome = "returned"]
    /\ arg' = NoArg
    /\ ncalls' = ncalls + 1
    /\ UNCHANGED <<attempts, patterns, now, ledger, audit, tasks>>

ShouldSendUltimatum(u, lookup) ==
    /\ ncalls < MaxQueries
    /\ profiles' = get_or_create_profile(profiles, u)
    /\ res' = [kind |-> "ultimatum",
               value |-> should_send_ultimatum(profiles'[u], lookup, now)]
    /\ last' = [NoCall EXCEPT !.op = "should_send_ultimatum", !.user = u,
                              !.goal = "goal_1", !.outcome = "returned"]
    /\ arg' = lookup
    /\ ncalls' = ncalls + 1
    /\ UNCHANGED <<attempts, patterns, now, ledger, audit, tasks>>

InitAdvice ==
    /\ \E h \in Histories : profiles = Replay(h, Len(h))
    /\ attempts = <<>>
    /\ patterns = <<>>
    /\ now = AdviceTime
    /\ ledger = <<>>
    /\ audit = <<>>
    /\ last = NoCall
    /\ ncalls = 0
    /\ tasks = <<>>
    /\ arg = NoArg
    /\ res = NoArg

NextAdvice ==
    \E u \in Users :
        \/ GetRecommendedStake(u)
        \/ \E lookup \in Lookups : ShouldSendUltimatum(u, lookup)

SpecAdvice == InitAdvice /\ [][NextAdvice]_vars

\* C23: get_recommended_stake returns 20 for a user with no outcome on record;
\* otherwise, with rate = successes / (successes + failures), it returns
\* min(stake * 1.5, 500) when rate > 0.8, max(stake * 0.7, 10) when rate < 0.3
\* and the current stake for every other rate, 0.8 and 0.3 included; the
\* result lies in [10, 500].
C23_RecommendedStake ==
    last.op = "get_recommended_stake" =>
        LET p == profiles[last.user]
            s == p.total_successes
            f == p.total_failures
            raised  == RatMin(RatMul(p.current_stake, 3, 2), Rat(500, 1))
            lowered == RatMax(RatMul(p.current_stake, 7, 10), Rat(10, 1))
        IN  /\ last.outcome = "returned"
            /\ res.value = IF s + f = 0 THEN Rat(20, 1)
                           ELSE IF 10 * s > 8 * (s + f) THEN raised
                           ELSE IF 10 * s < 3 * (s + f) THEN lowered
                           ELSE p.current_stake
            /\ RatLeq(Rat(10, 1), res.value)
            /\ RatLeq(res.value, Rat(500, 1))

\* A user with four successes and one failure (rate exactly 0.8) and a raised
\* stake is recommended the current stake.
C23_Witness ==
    /\ last.op = "get_recommended_stake"
    /\ last.user = "u1"
    /\ profiles["u1"].total_successes = 4
    /\ profiles["u1"].total_failures = 1
    /\ profiles["u1"].current_stake # Rat(10, 1)
    /\ res.value = profiles["u1"].current_stake

\* C24: should_send_ultimatum returns True whenever the user's recent_failures
\* is 3 or more, whatever the goal lookup gives; when the lookup raises or
\* finds no goal, the call returns (it does not raise) and its value is
\* exactly recent_failures >= 3.
C24_EscalatesOnFailures ==
    last.op = "should_send_ultimatum" =>
        LET p == profiles[last.user]
        IN  /\ last.outcome = "returned"
            /\ p.recent_failures >= 3 => res.value
            /\ arg.kind \in {"raises", "absent"} =>
                   res.value = (p.recent_failures >= 3)

\* The lookup raised for a user with three failures in a row: the answer is
\* True.
C24_Witness ==
    /\ last.op = "should_send_ultimatum"
    /\ last.user = "u1"
    /\ arg = LookupRaises
    /\ profiles["u1"].recent_failures = 3
    /\ res.value

\* C25: when the lookup gives a goal of positive duration whose deadline is
\* ahead, should_send_ultimatum returns True whenever less than a quarter of
\* the duration remains and the user's successes / submissions is below half
\* of required_submissions / duration_days, whatever recent_failures is and
\* also when less than one whole day remains.
C25_EscalatesNearDeadline ==
    ( /\ last.op = "should_send_ultimatum"
      /\ arg.kind = "goal"
      /\ arg.duration_days > 0
      /\ arg.end_date > now
      /\ 4 * (arg.end_date - now) < arg.duration_days * TicksPerDay
      /\ LET p == profiles[last.user]
             n == p.total_successes + p.total_failures
         IN  p.total_successes * 2 * arg.duration_days
                 < arg.required_submissions * (IF n = 0 THEN 1 ELSE n) )
    => res.value

\* ---------------------------------------------------------------------------
\* Submissions whose ledger call returns a hash, returns None or raises
\* ---------------------------------------------------------------------------

MaxLedgerCalls == 2

\* contract.record_verification returns the transaction hash, returns None
\* (no contract, failed transaction, caught error) or raises
LedgerOutcomes == {"hash", "none", "raises"}

SubmitWithLedger(user_id, goal_id, img, vision, tx) ==
    /\ ncalls < MaxLedgerCalls
    /\ \E r \in {process_submission(
                    [profiles |-> profiles, attempts |-> attempts,
                     patterns |-> patterns, ledger |-> ledger, audit |-> audit],
                    user_id, goal_id, img, Metadata(TsAbsent, FALSE, 0),
                    vision, "none", tx, now)} :
           /\ profiles' = r.db.profiles
           /\ attempts' = r.db.attempts
           /\ patterns' = r.db.patterns
           /\ ledger' = r.db.ledger
           /\ audit' = r.db.audit
           /\ last' = r.last
    /\ arg' = [kind |-> "submission", img |-> img, vision |-> vision, tx |-> tx]
    /\ ncalls' = ncalls + 1
    /\ UNCHANGED <<now, res, tasks>>

NextLedger ==
    \E u \in Users, g \in HistoryGoals, img \in BaseImages, v \in BaseVisions,
       tx \in LedgerOutcomes :
        SubmitWithLedger(u, g, img, v, tx)

SpecLedger == Init /\ [][NextLedger]_vars

\* C26: one process_submission makes at most one record_verification call,
\* only for a goal identifier made of digits and with approved = (verdict is
\* APPROVED); the call ends as it would, with the same verdict and the same
\* profile table, had the ledger call returned a hash, returned None or
\* raised.
C26_LedgerNeverDecides ==
    [][ last'.op = "process_submission" =>
          /\ \/ ledger' = ledger
             \/ /\ last'.goal \in {"1", "2"}
                /\ last'.outcome = "returned"
                /\ ledger' = Append(ledger,
                                [goal_id |-> last'.goal,
                                 approved |-> last'.verdict = "approved"])
          /\ \A tx \in LedgerOutcomes :
               \A other \in {process_submission(
                               [profiles |-> profiles, attempts |-> attempts,
                                patterns |-> patterns, ledger |-> ledger,
                                audit |-> audit],
                               last'.user, last'.goal, arg'.img, last'.metadata,
                               arg'.vision, last'.fault, tx, now)} :
                   /\ other.last.outcome = last'.outcome
                   /\ other.last.verdict = last'.verdict
                   /\ other.db.profiles = profiles' ]_vars

\* An approved submission for goal "1" whose ledger call raised: the call
\* returned, the ledger was asked to record approved = True and the user's
\* success is on the profile.
C26_Witness ==
    /\ last.op = "process_submission"
    /\ last.outcome = "returned"
    /\ last.verdict = "approved"
    /\ last.goal = "1"
    /\ arg.kind = "submission"
    /\ arg.tx = "raises"
    /\ ~last.blockchain_tx
    /\ Len(ledger) = 1
    /\ ledger[1].approved
    /\ profiles[last.user].total_successes = 1

\* ---------------------------------------------------------------------------
\* verification.py: the classifier call in front of the pipeline
\* ---------------------------------------------------------------------------

MaxProofs == 2

\* A value json.loads returns: an object with its "verdict" entry (a string,
\* "other" for a value that is no string, or "missing") and its "confidence"
\* entry (conf_kind "number", "missing", or "other" for a string or null), or
\* a value that is no object (an array, a string, a number).
JsonObject(verdict, conf_kind, conf) ==
    [type |-> "object", verdict |-> verdict, conf_kind |-> conf_kind,
     confidence |-> conf, red_flags |-> {}]

JsonArray ==
    [type |-> "array", verdict |-> "missing", conf_kind |-> "missing",
     confidence |-> 0, red_flags |-> {}]

\* the dictionaries of lines 103-108, 147-152 and 238-243
Degraded(flag) ==
    [type |-> "object", verdict |-> "unclear", conf_kind |-> "number",
     confidence |-> 0, red_flags |-> {flag}]

\* The text of a response, by the first attempt of _parse_response whose
\* json.loads succeeds ("direct", "json_fence", "fence", "braces", or "none"
\* when all four fail) and the value that attempt loads.
ResponseText(parse, value) == [kind |-> "text", parse |-> parse, value |-> value]

\* _parse_response
parse_response(text) ==
    IF text.parse = "none" THEN Degraded("parse_error") ELSE text.value

\* verify_proof with verdict "reject" in the dictionary of the except branch
verify_proof_error_rejects(classifier) ==
    IF classifier.kind = "not_configured" THEN Degraded("api_not_configured")
    ELSE IF classifier.kind = "raises"
    THEN [Degraded("api_error") EXCEPT !.verdict = "reject"]
    ELSE LET result == parse_response(classifier)
         IN  IF result.type # "object"
             THEN [Degraded("api_error") EXCEPT !.verdict = "reject"]
             ELSE result

\* verify_proof. classifier is what the call of the model does: the agent is
\* not enabled, Image.open / generate_content / response.text raises (an API
\* error, a timeout reported by the client), or a response text arrives. A
\* parsed value that is no dictionary has no .get: the AttributeError of line
\* 139 is caught at line 143 like every other exception.
verify_proof(classifier) ==
    IF classifier.kind = "not_configured" THEN Degraded("api_not_configured")
    ELSE IF classifier.kind = "raises" THEN Degraded("api_error")
    ELSE LET result == parse_response(classifier)
         IN  IF result.type # "object" THEN Degraded("api_error") ELSE result

NotConfigured == [kind |-> "not_configured", parse |-> "none", value |-> JsonArray]

CallRaises == [kind |-> "raises", parse |-> "none", value |-> JsonArray]

JsonValues ==
    {JsonObject("approve", "number", 99), JsonObject("reject", "number", 85),
     JsonObject("missing", "number", 99), JsonObject("other", "number", 99),
     JsonObject("approve", "missing", 0), JsonObject("reject", "missing", 0),
     JsonObject("approve", "other", 0), JsonArray}

ClassifierOutcomes ==
    {NotConfigured, CallRaises, ResponseText("none", JsonArray),
     ResponseText("braces", JsonObject("approve", "number", 99))}
    \cup {ResponseText("direct", v) : v \in JsonValues}

\* process_submission with step 1 (lines 75-81) in front of it
SubmitProof(user_id, img, classifier) ==
    /\ ncalls < MaxProofs
    /\ \E vision \in {verify_proof(classifier)} :
         /\ arg' = [kind |-> "proof", classifier |-> classifier,
                    vision |-> vision]
         /\ \E r \in {process_submission(
                        [profiles |-> profiles, attempts |-> attempts,
                         patterns |-> patterns, ledger |-> ledger,
                         audit |-> audit],
                        user_id, "1", img, Metadata(TsAbsent, FALSE, 0),
                        vision, "none", "hash", now)} :
               /\ profiles' = r.db.profiles
               /\ attempts' = r.db.attempts
               /\ patterns' = r.db.patterns
               /\ ledger' = r.db.ledger
               /\ audit' = r.db.audit
               /\ last' = r.last
    /\ ncalls' = ncalls + 1
    /\ UNCHANGED <<now, res, tasks>>

NextVerify ==
    \E img \in BaseImages, c \in ClassifierOutcomes : SubmitProof("u1", img, c)

SpecVerify == Init /\ [][NextVerify]_vars

\* C27: when the classifier call raises (failure, timeout) or the agent is not
\* configured, the classifier result is verdict unclear, confidence 0 with
\* the flag api_error (api_not_configured), process_submission returns, and
\* its verdict is FRAUD_DETECTED when the fraud score is above 0.7 and
\* UNCLEAR otherwise: never APPROVED, never REJECTED.
C27_ClassifierFailureIsUnclear ==
    ( /\ last.op = "process_submission"
      /\ arg.kind = "proof"
      /\ arg.classifier.kind \in {"raises", "not_configured"} )
    => /\ arg.vision.verdict = "unclear"
       /\ arg.vision.conf_kind = "number"
       /\ arg.vision.confidence = 0
       /\ arg.vision.red_flags = IF arg.classifier.kind = "raises"
                                 THEN {"api_error"}
                                 ELSE {"api_not_configured"}
       /\ last.outcome = "returned"
       /\ last.verdict = IF FLess(F_0_7, last.score) THEN "fraud_detected"
                         ELSE "unclear"

\* The classifier call raised on a first submission: the verdict is UNCLEAR
\* and the submission counts as a failure of the user.
C27_Witness ==
    /\ last.op = "process_submission"
    /\ arg.kind = "proof"
    /\ arg.classifier = CallRaises
    /\ last.outcome = "returned"
    /\ last.verdict = "unclear"
    /\ Len(attempts) = 1
    /\ profiles[last.user].total_failures = 1

\* C28: every malformed response of the classifier (no parsable JSON, or JSON
\* whose verdict or confidence entry is missing or of the wrong type) is
\* turned into verdict unclear, confidence 0 with the flag parse_error, and
\* process_submission returns.
C28_MalformedResponseDegrades ==
    ( /\ last.op = "process_submission"
      /\ arg.kind = "proof"
      /\ arg.classifier.kind = "text"
      /\ \/ arg.classifier.parse = "none"
         \/ arg.classifier.value.type # "object"
         \/ arg.classifier.value.verdict \notin {"approve", "reject", "unclear"}
         \/ arg.classifier.value.conf_kind # "number" )
    => /\ arg.vision = Degraded("parse_error")
       /\ last.outcome = "returned"

\* ---------------------------------------------------------------------------
\* One user submitting evidence that differs each time, stamped by a datetime
\* ---------------------------------------------------------------------------

MaxStreak == 3

\* no two of them have perceptual hashes within distance 5
StreakImages == {ImgA, ImgC, ImgD}

NextStreak ==
    \/ \E img \in StreakImages,
          v \in {VisionResult("approve", "number", 99),
                 VisionResult("reject", "number", 85)} :
            /\ ncalls < MaxStreak
            /\ ProcessSubmission("u1", "1", img, Metadata(TsDatetime(10), FALSE, 0),
                                 v, "none", "hash")
    \/ Tick

SpecStreak == Init /\ [][NextStreak]_vars

\* C29: a stake_adjustment event carrying the old and the new stake is
\* emitted exactly when record_success or record_failure changed the stake:
\* a process_submission that changes the user's current_stake adds one such
\* event to the audit log, and no call adds an event whose old and new stake
\* are equal.
C29_StakeChangeIsAudited ==
    [][ (ncalls' = ncalls + 1 /\ last'.op = "process_submission") =>
          LET u   == last'.user
              old == ColumnBefore(u, "current_stake")
              new == profiles'[u].current_stake
              added == {i \in DOMAIN audit' \ DOMAIN audit :
                           audit'[i].event = "stake_adjustment"}
          IN  /\ (u \in DOMAIN profiles' /\ new # old) =>
                     /\ Cardinality(added) = 1
                     /\ \A i \in added :
                            /\ audit'[i].user = u
                            /\ audit'[i].old_stake = old
                            /\ audit'[i].new_stake = new
              /\ \A i \in added : audit'[i].old_stake # audit'[i].new_stake
      ]_vars

\* ---------------------------------------------------------------------------
\* The five checks of analyze, run in a given order
\* ---------------------------------------------------------------------------

\* check k of analyze with one added dependency: the similarity check is
\* skipped once duplicate_image is among the signals
check_signals_skips_similar(k, atts, pats, sigs, img, user_id, metadata, t) ==
    CASE k = 1 -> IF is_duplicate_hash(atts, compute_file_hash(img), user_id)
                  THEN <<"duplicate_image">> ELSE <<>>
      [] k = 2 -> IF /\ ~In("duplicate_image", sigs)
                     /\ find_similar_images(atts, compute_perceptual_hash(img),
                                            user_id) # {}
                  THEN <<"similar_image_detected">> ELSE <<>>
      [] k = 3 -> check_metadata(metadata)
      [] k = 4 -> check_temporal_patterns(atts, user_id, t)
      [] k = 5 -> IF match_known_patterns(pats, sigs) # {}
                  THEN <<"known_fraud_pattern">> ELSE <<>>

\* What check k of analyze (lines 90-122) adds to the signal list, sigs being
\* the list when the check starts: checks 1 to 4 read the submission and the
\* stored attempts, check 5 reads the stored patterns and sigs.
check_signals(k, atts, pats, sigs, img, user_id, metadata, t) ==
    CASE k = 1 -> IF is_duplicate_hash(atts, compute_file_hash(img), user_id)
                  THEN <<"duplicate_image">> ELSE <<>>
      [] k = 2 -> IF find_similar_images(atts, compute_perceptual_hash(img),
                                         user_id) # {}
                  THEN <<"similar_image_detected">> ELSE <<>>
      [] k = 3 -> check_metadata(metadata)
      [] k = 4 -> check_temporal_patterns(atts, user_id, t)
      [] k = 5 -> IF match_known_patterns(pats, sigs) # {}
                  THEN <<"known_fraud_pattern">> ELSE <<>>

RECURSIVE run_checks(_, _, _, _, _, _, _, _)
\* the signal list after the first n checks of the order have run, each
\* appending to the list as analyze does
run_checks(order, n, atts, pats, img, user_id, metadata, t) ==
    IF n = 0 THEN <<>>
    ELSE LET sigs == run_checks(order, n - 1, atts, pats, img, user_id,
                                metadata, t)
         IN  sigs \o check_signals(order[n], atts, pats, sigs, img, user_id,
                                   metadata, t)

\* the orders in which five checks can run
C30_Orders == {o \in [1..5 -> 1..5] : \A i, j \in 1..5 : o[i] = o[j] => i = j}

C30_Set(signals) == {signals[i] : i \in DOMAIN signals}

\* C30 as stated: the five checks of one submission have no data dependency
\* on one another; whatever the order in which they run, the signals analyze
\* returns are the same.
C30_AnyOrderSameSignals ==
    [][ (ncalls' = ncalls + 1 /\ last'.op = "process_submission"
             /\ last'.analyzed) =>
          \A img \in StreakImages, order \in C30_Orders :
              compute_file_hash(img) = attempts'[Len(attempts')].image_hash =>
                  C30_Set(run_checks(order, 5, attempts, patterns, img,
                                     last'.user, last'.metadata, now))
                      = C30_Set(last'.signals)
      ]_vars

\* C30: checks 1 to 4 have no data dependency on one another and check 5
\* reads the signals of the other four: run in the order 1, 2, 3, 4, 5 the
\* checks give the signal list analyze returns, and in every order that has
\* check 5 last they give the same signals.
C30_PatternMatchLast ==
    [][ (ncalls' = ncalls + 1 /\ last'.op = "process_submission"
             /\ last'.analyzed) =>
          \A img \in StreakImages :
              compute_file_hash(img) = attempts'[Len(attempts')].image_hash =>
                  /\ run_checks(<<1, 2, 3, 4, 5>>, 5, attempts, patterns, img,
                                last'.user, last'.metadata, now) = last'.signals
                  /\ \A order \in C30_Orders :
                         order[5] = 5 =>
                             C30_Set(run_checks(order, 5, attempts, patterns,
                                                img, last'.user, last'.metadata,
                                                now))
                                 = C30_Set(last'.signals)
      ]_vars

\* The same image was submitted twice at 04:30: the second submission is a
\* duplicate, similar to the first, and matches the pattern the first one
\* left behind.
C30_Witness ==
    /\ last.op = "process_submission"
    /\ last.analyzed
    /\ Len(attempts) = 2
    /\ In("duplicate_image", last.signals)
    /\ In("similar_image_detected", last.signals)
    /\ In("unusual_hour", last.signals)
    /\ last.signals[Len(last.signals)] = "known_fraud_pattern"

\* ---------------------------------------------------------------------------
\* brain.py: the tone of the response
\* ---------------------------------------------------------------------------

Verdicts == {"approved", "rejected", "unclear", "fraud_detected"}

Hours == 0..23

\* _select_personality called for a user (with or without a profile), a
\* decision and a submission time
InitTone ==
    /\ profiles \in {NoProfiles, "u1" :> VeteranProfile, ConcProfiles}
    /\ attempts = <<>>
    /\ patterns = <<>>
    /\ now = StartTime
    /\ ledger = <<>>
    /\ audit = <<>>
    /\ last = NoCall
    /\ ncalls = 0
    /\ tasks = <<>>
    /\ arg \in {[kind |-> "tone", user |-> u, verdict |-> v, hour |-> h] :
                   u \in Users, v \in Verdicts, h \in Hours}
    /\ res = NoArg

SelectPersonality ==
    /\ res = NoArg
    /\ res' = [kind |-> "personality",
               value |-> select_personality(arg.verdict, arg.hour)]
    /\ UNCHANGED <<profiles, attempts, patterns, now, ledger, audit, last,
                   ncalls, arg, tasks>>

NextTone == SelectPersonality

SpecTone == InitTone /\ [][NextTone]_vars

MaxRapid == 6

MaxRapidTicks == 2

\* FraudPatternMatcher.analyze called directly, one call at a time, with a
\* fresh ISO timestamp in the metadata
Analyze(user_id, img) ==
    /\ ncalls < MaxRapid
    /\ \E r \in {analyze(attempts, patterns, img, user_id, "1",
                         Metadata(TsIso(0, 0), FALSE, 0), now, "none")} :
           /\ attempts' = r.attempts
           /\ patterns' = r.patterns
           /\ last' = [NoCall EXCEPT !.op = "analyze", !.user = user_id,
                                     !.goal = "1", !.outcome = "returned",
                                     !.analyzed = TRUE, !.signals = r.signals,
                                     !.score = r.score]
    /\ ncalls' = ncalls + 1
    /\ UNCHANGED <<profiles, now, ledger, audit, arg, res, tasks>>

\* the clock moves on by half an hour
TickRapid ==
    /\ now < StartTime + MaxRapidTicks
    /\ now' = now + 1
    /\ UNCHANGED <<profiles, attempts, patterns, ledger, audit, last, ncalls,
                   arg, res, tasks>>

NextRapid ==
    \/ \E u \in Users : Analyze(u, ImgA)
    \/ TickRapid

SpecRapid == Init /\ [][NextRapid]_vars

\* C32: a submission carries rapid_submissions exactly when more than 3
\* stored attempts of the same user are less than one hour old when it is
\* analysed: the fifth and every later submission of a user inside one hour
\* is flagged, the first four are not, and the attempts of other users do not
\* count.
C32_RapidAfterFourInAnHour ==
    [][ (ncalls' = ncalls + 1 /\ last'.op = "analyze") =>
          LET mine == {i \in DOMAIN attempts :
                          attempts[i].user_id = last'.user}
              recent == {i \in mine : now - attempts[i].timestamp < TicksPerHour}
          IN  /\ In("rapid_submissions", last'.signals)
                     <=> Cardinality(recent) >= 4
              /\ (recent = mine) =>
                     (In("rapid_submissions", last'.signals)
                          <=> Cardinality(mine) + 1 >= 5)
      ]_vars

\* The fifth submission of u1 within the hour is flagged although the table
\* holds an attempt of u2 as well; the fourth was not.
C32_Witness ==
    /\ last.op = "analyze"
    /\ last.user = "u1"
    /\ Len(attempts) = 6
    /\ Cardinality({i \in DOMAIN attempts : attempts[i].user_id = "u1"}) = 5
    /\ In("rapid_submissions", last.signals)
    /\ attempts[6].user_id = "u1"
    /\ \A i \in 1..5 : ~In("rapid_submissions", attempts[i].detected_signals)

\* ---------------------------------------------------------------------------
\* Submissions stamped a day ago
\* ---------------------------------------------------------------------------

MaxOld == 2

\* a timestamp given as ISO-8601 text with a UTC offset: fromisoformat parses
\* it, and subtracting the aware datetime from datetime.utcnow() raises
TsIsoAware(age_hours, age_minutes) ==
    Timestamp("iso_aware", age_hours, age_minutes, 0)

\* a datetime object of that age
TsDatetimeAged(age_hours, hour) == Timestamp("datetime", age_hours, 0, hour)

OldTimestamps ==
    {TsIso(24, 0), TsIso(24, 1), TsIso(26, 0), TsIsoAware(26, 0),
     TsDatetimeAged(26, 10)}

NextOld ==
    \E img \in {ImgA, ImgC}, ts \in OldTimestamps, v \in BaseVisions :
        /\ ncalls < MaxOld
        /\ ProcessSubmission("u1", "1", img, Metadata(ts, FALSE, 0), v, "none",
                             "hash")

SpecOld == Init /\ [][NextOld]_vars

\* C33: every submission whose timestamp is more than 24 hours old carries
\* old_photo and an image_age_<N>h signal, has a fraud score of at least 0.50
\* and is not APPROVED, whatever the classifier returned.
C33_OldPhotoNeverApproved ==
    ( /\ last.op = "process_submission"
      /\ last.analyzed
      /\ last.metadata.timestamp.age_hours * 60
             + last.metadata.timestamp.age_minutes > 24 * 60 )
    => /\ In("old_photo", last.signals)
       /\ In("image_age_" \o ToString(last.metadata.timestamp.age_hours) \o "h",
             last.signals)
       /\ FLeq(F_0_5, last.score)
       /\ last.verdict # "approved"

\* C34: for evidence that cannot be opened as an image analyze still returns
\* and stores the attempt, with the empty string as perceptual hash and
\* without similar_image_detected; and an attempt stored with the empty hash
\* never makes a later submission similar: every similar_image_detected has
\* an earlier attempt of the same user with a real hash within distance 5.
C34_UndecodableEvidence ==
    /\ (last.op = "process_submission" /\ last.fault = "none") => last.analyzed
    /\ \A i \in DOMAIN attempts :
          /\ attempts[i].image_hash = compute_file_hash(ImgD) =>
                 /\ attempts[i].perceptual_hash = EmptyHash
                 /\ ~In("similar_image_detected", attempts[i].detected_signals)
          /\ In("similar_image_detected", attempts[i].detected_signals) =>
                 \E j \in 1..(i - 1) :
                     /\ attempts[j].user_id = attempts[i].user_id
                     /\ attempts[j].perceptual_hash.hex
                     /\ attempts[i].perceptual_hash.hex
                     /\ hamming(attempts[i].perceptual_hash.bits,
                                attempts[j].perceptual_hash.bits) <= 5

\* Undecodable evidence was stored with the empty hash, and the image of hash
\* zero submitted after it was not found similar to it.
C34_Witness ==
    /\ Len(attempts) = 2
    /\ attempts[1].image_hash = compute_file_hash(ImgD)
    /\ attempts[1].perceptual_hash = EmptyHash
    /\ attempts[2].image_hash = compute_file_hash(ImgA)
    /\ ~In("similar_image_detected", attempts[2].detected_signals)
    /\ last.analyzed

\* ---------------------------------------------------------------------------
\* Cancelling the task of an analyze call
\* ---------------------------------------------------------------------------

MaxCancelTasks == 2

\* An analyze coroutine wrapped in a task; cancel_at is the position the
\* coroutine had reached when Task.cancel() was called ("none": not called).
CancellableTask(u, img) ==
    [op |-> "analyze", user |-> u, img |-> img, pc |-> "called",
     signals |-> <<>>, score |-> F_0_0, seen |-> <<>>, cancel_at |-> "none"]

\* CancelledError thrown at every await of the source
cancel_delivered_at_every_await(pc) ==
    pc \in {"called", "checked", "scored", "logged"}

\* Task.cancel() only asks for the cancellation: CancelledError is thrown into
\* the coroutine when the event loop next runs a step of the task, which is
\* its first step or its wake-up from a future it is suspended on. The
\* coroutines awaited by analyze (_check_temporal_patterns, _log_attempt,
\* _update_patterns) contain no await of a future, so once started analyze
\* runs to its return within one step of the task.
cancel_delivered_at(pc) == pc = "called"

CallCancellable(u, img) ==
    /\ Len(tasks) < MaxCancelTasks
    /\ tasks' = Append(tasks, CancellableTask(u, img))
    /\ UNCHANGED <<profiles, attempts, patterns, now, ledger, audit, last,
                   ncalls, arg, res>>

\* Task.cancel() on a task that is not done
Cancel(i) ==
    /\ tasks[i].pc \notin {"done", "cancelled"}
    /\ tasks[i].cancel_at = "none"
    /\ tasks' = [tasks EXCEPT ![i].cancel_at = tasks[i].pc]
    /\ UNCHANGED <<profiles, attempts, patterns, now, ledger, audit, last,
                   ncalls, arg, res>>

\* the task's step throws CancelledError into the coroutine
ThrowCancelled(i) ==
    /\ tasks[i].pc \notin {"done", "cancelled"}
    /\ tasks[i].cancel_at # "none"
    /\ cancel_delivered_at(tasks[i].pc)
    /\ tasks' = [tasks EXCEPT ![i].pc = "cancelled"]
    /\ UNCHANGED <<profiles, attempts, patterns, now, ledger, audit, last,
                   ncalls, arg, res>>

\* the coroutine of task i runs on to its next await
StepTask(i) ==
    /\ ~(tasks[i].cancel_at # "none" /\ cancel_delivered_at(tasks[i].pc))
    /\ \/ RunChecks(i)
       \/ RunTemporal(i)
       \/ CommitAttempt(i)
       \/ UpdatePatterns(i)

NextCancel ==
    \/ CallCancellable("u1", ImgA)
    \/ \E i \in DOMAIN tasks : Cancel(i)
    \/ \E i \in DOMAIN tasks : ThrowCancelled(i)
    \/ \E i \in DOMAIN tasks : StepTask(i)

SpecCancel == Init /\ [][NextCancel]_vars

\* The event loop runs a task that is ready: a call whose score has been
\* computed is not left waiting forever.
SpecCancelFair ==
    SpecCancel /\ WF_vars(\E i \in DOMAIN tasks : tasks[i].pc = "scored" /\ StepTask(i))

\* task i has: its score computed; its attempt stored
C35_Scored(i) ==
    i \in DOMAIN tasks /\ tasks[i].pc \in {"scored", "logged", "done"}

C35_Stored(i) ==
    i \in DOMAIN tasks /\ tasks[i].pc \in {"logged", "done"}

\* C35: cancelling an analyze call whose score has been computed does not
\* drop it from the history: no such call ends cancelled, its attempt is
\* appended (every scored call is eventually stored, and the table holds one
\* attempt per stored call), and an identical submission of the same user
\* analysed after it is flagged duplicate_image.
C35_CancelKeepsHistory ==
    /\ [](\A i \in DOMAIN tasks :
             tasks[i].pc = "cancelled" =>
                 (tasks[i].cancel_at = "called" /\ tasks[i].signals = <<>>))
    /\ [](Len(attempts) = Cardinality({i \in DOMAIN tasks : C35_Stored(i)}))
    /\ \A i \in 1..MaxCancelTasks : C35_Scored(i) ~> C35_Stored(i)
    /\ [][ \A j \in DOMAIN tasks :
             ( /\ tasks[j].pc = "called"
               /\ tasks'[j].pc = "checked"
               /\ \E i \in DOMAIN tasks :
                      /\ C35_Stored(i)
                      /\ tasks[i].cancel_at # "none"
                      /\ tasks[i].user = tasks[j].user
                      /\ tasks[i].img = tasks[j].img )
             => In("duplicate_image", tasks'[j].signals) ]_vars

\* Task 1 was cancelled after its score had been computed; its attempt is in
\* the table, and the identical submission of task 2 is a duplicate.
C35_Witness ==
    /\ Len(tasks) = 2
    /\ tasks[1].cancel_at = "scored"
    /\ tasks[1].pc = "done"
    /\ tasks[2].user = tasks[1].user /\ tasks[2].img = tasks[1].img
    /\ tasks[2].pc = "done"
    /\ In("duplicate_image", tasks[2].signals)
    /\ Len(attempts) = 2

\* C36: in every profile a streak above 0 comes with a recent-failure counter
\* of 0 and compassion mode off, the streak is at most the lifetime
\* successes, and the recent failures are at most the lifetime failures.
C36_ProfileCounters ==
    \A u \in DOMAIN profiles :
        /\ profiles[u].current_streak > 0 =>
               (profiles[u].recent_failures = 0 /\ ~profiles[u].compassion_mode)
        /\ profiles[u].current_streak <= profiles[u].total_successes
        /\ profiles[u].recent_failures <= profiles[u].total_failures

\* A user who went into compassion mode, succeeded twice, failed once and
\* succeeded again: the streak is 1 of 3 successes, no recent failure is
\* left of the 3 failures, and compassion mode is off.
C36_Witness ==
    /\ "u2" \in DOMAIN profiles
    /\ profiles["u2"].current_streak = 1
    /\ profiles["u2"].total_successes = 3
    /\ profiles["u2"].total_failures = 3
    /\ profiles["u2"].recent_failures = 0
    /\ ~profiles["u2"].compassion_mode
    /\ last.op = "record_success"

\* what the database holds of user u: the lifetime successes and failures,
\* the stored attempts, and the calls of process_submission that returned
C37_Outcomes(tbl, u) ==
    IF u \in DOMAIN tbl THEN tbl[u].total_successes + tbl[u].total_failures
    ELSE 0

C37_Records(atts, u) ==
    Cardinality({i \in DOMAIN atts : atts[i].user_id = u})

C37_Returned(u) ==
    Cardinality({i \in DOMAIN audit :
                    audit[i].event = "proof_verification" /\ audit[i].user = u})

\* C37: with process_submission as the only writer of the profiles, the
\* lifetime successes plus failures of a user are at most the attempts stored
\* for the user and equal the user's calls that returned a verdict, and a
\* call that counts an outcome has stored its attempt.
C37_OutcomesFollowAppends ==
    /\ [](\A u \in Users :
             /\ C37_Outcomes(profiles, u) <= C37_Records(attempts, u)
             /\ C37_Outcomes(profiles, u) = C37_Returned(u))
    /\ [][ \A u \in Users :
             C37_Outcomes(profiles', u) # C37_Outcomes(profiles, u) =>
                 /\ C37_Outcomes(profiles', u) = C37_Outcomes(profiles, u) + 1
                 /\ C37_Records(attempts', u) = C37_Records(attempts, u) + 1
                 /\ last'.analyzed ]_vars

\* u1 has three attempts stored: one call returned and was counted, two
\* raised after their attempt was stored, the last of them when the profile
\* was written.
C37_Witness ==
    /\ C37_Records(attempts, "u1") = 3
    /\ C37_Outcomes(profiles, "u1") = 1
    /\ C37_Returned("u1") = 1
    /\ last.user = "u1" /\ last.outcome = "raised" /\ last.fault = "profile"

\* C38: the detection rule of every learned pattern is two different
\* signals, neither of them known_fraud_pattern; in every stored attempt the
\* signal of the pattern match comes after two other signals.
C38_RuleIsTwoDetectedSignals ==
    /\ \A k \in DOMAIN patterns :
           /\ Len(patterns[k].detection_rule) = 2
           /\ patterns[k].detection_rule[1] # patterns[k].detection_rule[2]
           /\ ~In("known_fraud_pattern", patterns[k].detection_rule)
    /\ \A i \in DOMAIN attempts :
           ~In("known_fraud_pattern",
               SubSeq(attempts[i].detected_signals, 1,
                      IF Len(attempts[i].detected_signals) < 2
                      THEN Len(attempts[i].detected_signals) ELSE 2))

\* An attempt whose signals matched a learned pattern has been stored and
\* counted: the pattern it was counted for has two hits.
C38_Witness ==
    /\ Len(attempts) = 2
    /\ In("known_fraud_pattern", attempts[2].detected_signals)
    /\ \E k \in DOMAIN patterns : patterns[k].times_detected = 2

\* ---------------------------------------------------------------------------
\* Learning from submissions made one after the other
\* ---------------------------------------------------------------------------

MaxLearn == 3

\* the commit of _update_patterns may fail
LearnFaults == {"none", "patterns"}

\* One user's submissions, each analysed after the one before has ended; the
\* clock can pass 05:00, after which the hour is no signal any more.
NextLearn ==
    \/ \E img \in {ImgA, ImgC}, ts \in {TsAbsent, TsDatetime(10)},
          f \in LearnFaults :
            /\ ncalls < MaxLearn
            /\ ProcessSubmission("u1", "1", img, Metadata(ts, FALSE, 0),
                                 VisionResult("approve", "number", 99), f, "hash")
    \/ Tick

SpecLearn == Init /\ [][NextLearn]_vars

\* the sum of the hit counters of the pattern table
RECURSIVE C39_Hits(_)
C39_Hits(pats) ==
    IF pats = <<>> THEN 0
    ELSE pats[1].times_detected + C39_Hits(Tail(pats))

\* the stored attempts with two signals or more
C39_Multi(atts) ==
    Cardinality({i \in DOMAIN atts : Len(atts[i].detected_signals) >= 2})

\* C39 as stated: the hit counters of the learned patterns add up to the
\* number of stored attempts with at least two signals.
C39_HitsEqualRecords == C39_Hits(patterns) = C39_Multi(attempts)

\* C39, amended: the hit counters add up to at most the number of stored
\* attempts with at least two signals; a call that stores its attempt and
\* then fails to write the pattern table leaves the sum one further behind,
\* and every other step keeps the difference.
C39_HitsWithinRecords ==
    /\ [](C39_Hits(patterns) <= C39_Multi(attempts))
    /\ [][ C39_Multi(attempts') - C39_Hits(patterns') =
             C39_Multi(attempts) - C39_Hits(patterns) +
             ( IF /\ last'.fault = "patterns"
                  /\ ~last'.analyzed
                  /\ Len(attempts') > Len(attempts)
               THEN 1 ELSE 0 ) ]_vars

\* Three attempts are stored, two of them with two signals or more; the
\* pattern write of the last one failed, so the counters add up to 1.
C39_Witness ==
    /\ Len(attempts) = 3
    /\ C39_Multi(attempts) = 2
    /\ C39_Hits(patterns) = 1
    /\ last.fault = "patterns" /\ last.outcome = "raised"

\* the attempt a step has appended is a resubmission: the same user has an
\* earlier attempt stored with the same file hash, and the file decodes
C40_Resubmitted ==
    /\ Len(attempts') = Len(attempts) + 1
    /\ attempts'[Len(attempts')].perceptual_hash.hex
    /\ \E i \in DOMAIN attempts :
           /\ attempts[i].user_id = attempts'[Len(attempts')].user_id
           /\ attempts[i].image_hash = attempts'[Len(attempts')].image_hash

\* C40: the analysis of a byte-identical resubmission by the same user of a
\* file that decodes as an image carries duplicate_image and
\* similar_image_detected, its score is at least 0.7, and a call of
\* process_submission that returns for it does not return APPROVED.
C40_ResubmissionNeverApproved ==
    [][ C40_Resubmitted =>
          /\ In("duplicate_image", attempts'[Len(attempts')].detected_signals)
          /\ In("similar_image_detected",
                attempts'[Len(attempts')].detected_signals)
          /\ FLeq(F_0_7, calculate_fraud_score(
                             attempts'[Len(attempts')].detected_signals))
          /\ last'.analyzed =>
                 /\ last'.signals = attempts'[Len(attempts')].detected_signals
                 /\ FLeq(F_0_7, last'.score)
          /\ last'.verdict # "approved" ]_vars

\* u2 submitted the same decodable file twice: the first call returned
\* APPROVED; the second, analysed at 05:00 or later, carries both signals
\* and returned FRAUD_DETECTED.
C40_Witness ==
    /\ Len(attempts) = 2
    /\ attempts[1].user_id = "u2" /\ attempts[2].user_id = "u2"
    /\ attempts[1].image_hash = attempts[2].image_hash
    /\ attempts[2].perceptual_hash.hex
    /\ In("duplicate_image", last.signals)
    /\ In("similar_image_detected", last.signals)
    /\ ~In("unusual_hour", last.signals)
    /\ last.outcome = "returned"
    /\ last.verdict = "fraud_detected"
    /\ \E e \in {audit[i] : i \in DOMAIN audit} :
           e.event = "proof_verification" /\ e.verdict = "approved"

=============================================================================
